---- MODULE Spec2Model ----
(***************************************************************************)
(* Model of the DSV shipping plugin for Vendure.                           *)
(*                                                                         *)
(* Two generations of the plugin live in the repository:                   *)
(*   - the client-credentials generation: DsvAuthService with a refresh    *)
(*     token (src/unnamed/part_001), DsvBookingService (part_001),         *)
(*     DsvQuoteService (src/unnamed/part_002), the fulfillment handler and *)
(*     the static rate calculator (src/src/calculators/handlers);          *)
(*   - the password-grant generation: DsvAuthService                       *)
(*     (src/src/services/dsv-auth.service.ts) and DsvApiService            *)
(*     (src/unnamed/part_002).                                             *)
(* A deployment runs one of them; Init chooses which (variable grantKind). *)
(*                                                                         *)
(* Time is counted in seconds.  Node runs every handler to its next await  *)
(* without interruption, so one action is the code between two awaits on   *)
(* the network.  Requests are numbered in the order they are sent; the     *)
(* token, booking or quote a response carries is named by the number of    *)
(* its request.                                                            *)
(***************************************************************************)
EXTENDS Integers, Sequences, FiniteSets, TLC

----------------------------------------------------------------------------
(* Bounds of the model *)

StartTime == 600
MaxTime == 690
MaxRequests == 3

TimeSteps == {30}
Callers == {1, 2}

----------------------------------------------------------------------------
(* Program constants *)

tokenBufferSeconds == 60
tokenBufferSecondsPw == 300
defaultExpiresInPw == 3600
defaultQuoteCacheTTL == 300

(* JavaScript values *)
Undefined == 0          \* undefined / null / '' for a string or a number
InvalidDate == -1       \* a Date whose time value is NaN
NetworkError == 0       \* an axios error without a response

----------------------------------------------------------------------------
(* Inputs: what the token endpoint may answer *)

ExpiresInValues == {Undefined, 90, 360}
RefreshExpiresInValues == {Undefined, 60}
\* the configurations explored: DsvShippingPluginOptions.debugMode, quoteCacheTTL
Options == {[debugMode |-> FALSE, quoteCacheTTL |-> Undefined],
            [debugMode |-> TRUE, quoteCacheTTL |-> 60]}

FailStatuses == {401, 403, 429, 500, NetworkError}

\* DsvTokenResponse: access_token and refresh_token say whether the field is
\* present; the string itself is the index of the response in the log.
TokenResponses ==
    [access_token : BOOLEAN, expires_in : ExpiresInValues,
     refresh_token : BOOLEAN, refresh_expires_in : RefreshExpiresInValues]

NoData == [access_token |-> FALSE, expires_in |-> Undefined,
           refresh_token |-> FALSE, refresh_expires_in |-> Undefined]

\* the answers considered for a request of the given grant type: the password
\* grant's responses carry no refresh fields the service reads, and a response
\* without access_token is considered in one shape
ResponsesTo(grant) ==
    {d \in TokenResponses :
        /\ grant = "password" => (~d.refresh_token /\ d.refresh_expires_in = Undefined)
        /\ ~d.access_token =>
              (d.expires_in = 360 /\ ~d.refresh_token /\ d.refresh_expires_in = Undefined)}

----------------------------------------------------------------------------
VARIABLES
    now,            \* Date.now(), in seconds
    grantKind,      \* "client_credentials" or "password": the generation deployed
    accessToken,    \* DsvAuthService.accessToken : CachedToken | null   (part_001)
    accessTokenPw,  \* DsvAuthService.accessToken : string | null        (dsv-auth.service.ts)
    tokenExpiresAt, \* DsvAuthService.tokenExpiresAt : number | null     (dsv-auth.service.ts)
    calls,          \* per caller: the operation in progress and its locals
    sent,           \* how many HTTP requests each operation has sent to each endpoint
    lastTokenResponse,  \* the successful token response processed last
    options,        \* DsvShippingPluginOptions: debugMode, quoteCacheTTL
    quoteCache,     \* DsvQuoteService.quoteCache : NodeCache                (part_002)
    probe           \* inputs and results of the pure functions under test

auth == <<accessToken, accessTokenPw, tokenExpiresAt, lastTokenResponse>>
config == <<grantKind, options>>
vars == <<now, grantKind, accessToken, accessTokenPw, tokenExpiresAt, calls, sent,
          lastTokenResponse, options, quoteCache, probe>>

----------------------------------------------------------------------------
(* Errors.  An error is the axios error of a failed request (isAxios, with
   the HTTP status of the response) or a plain Error with a message. *)

AxiosError(status) ==
    [isAxios |-> TRUE, status |-> status,
     message |-> IF status = NetworkError THEN "Network Error"
                 ELSE "Request failed with status code " \o ToString(status)]

PlainError(message) == [isAxios |-> FALSE, status |-> Undefined, message |-> message]

\* formatError of the client-credentials generation's services: status text,
\* url and response body are left out of the rendering.
formatError(error) ==
    IF error.isAxios
    THEN IF error.status = Undefined THEN "NO_STATUS" ELSE ToString(error.status)
    ELSE error.message

----------------------------------------------------------------------------
(* DsvAuthService, client-credentials generation (src/unnamed/part_001) *)

NoCachedToken ==
    [cached |-> FALSE, token |-> Undefined, expiresAt |-> InvalidDate,
     refreshToken |-> Undefined, refreshExpiresAt |-> Undefined]

\* a response with the fields DsvTokenResponse declares as required
WellFormed(data) == data.access_token /\ data.expires_in # Undefined

\* the strings a token response carries: fresh ones, named after the response
AccessTokenOf(data, i) == IF data.access_token THEN i ELSE Undefined
RefreshTokenOf(data, i) == IF data.refresh_token THEN i ELSE Undefined

\* a validity test that trusts no cached token
isTokenValid_Never(cachedToken, t) == FALSE

\* a validity test that still holds at expiry - buffer
isTokenValid_Inclusive(cachedToken, t) ==
    /\ cachedToken.expiresAt # InvalidDate
    /\ t <= cachedToken.expiresAt - tokenBufferSeconds

isTokenValid(cachedToken, t) ==
    /\ cachedToken.expiresAt # InvalidDate
    /\ t < cachedToken.expiresAt - tokenBufferSeconds

\* a refresh guard that looks at no expiry
isRefreshTokenValid_Unchecked(cachedToken, t) == TRUE

isRefreshTokenValid(cachedToken, t) ==
    IF cachedToken.refreshExpiresAt = Undefined
    THEN FALSE
    ELSE t < cachedToken.refreshExpiresAt

\* the synchronous prefix of getAccessToken: serve the cache, or which grant to request
getAccessToken(cachedToken, t) ==
    IF cachedToken.cached /\ isTokenValid(cachedToken, t)
    THEN "cached"
    ELSE IF /\ cachedToken.cached
            /\ cachedToken.refreshToken # Undefined
            /\ isRefreshTokenValid(cachedToken, t)
         THEN "refresh_token"
         ELSE "client_credentials"

\* new Date(); setSeconds(getSeconds() + expires_in): NaN when expires_in is missing
ExpiresAtOf(data, t) ==
    IF data.expires_in = Undefined THEN InvalidDate ELSE t + data.expires_in

RefreshExpiresAtOf(data, t) ==
    IF data.refresh_expires_in # Undefined THEN t + data.refresh_expires_in ELSE Undefined

\* the CachedToken acquireToken stores for response i, processed at time t
acquireTokenCache(data, i, t) ==
    [cached |-> TRUE,
     token |-> AccessTokenOf(data, i),
     expiresAt |-> ExpiresAtOf(data, t),
     refreshToken |-> RefreshTokenOf(data, i),
     refreshExpiresAt |-> RefreshExpiresAtOf(data, t)]

\* a refreshToken() that leaves the cached expiry as it was
refreshTokenCache_KeepExpiry(data, i, t, refreshToken) ==
    [cached |-> TRUE,
     token |-> AccessTokenOf(data, i),
     expiresAt |-> accessToken.expiresAt,
     refreshToken |-> IF data.refresh_token THEN i ELSE refreshToken,
     refreshExpiresAt |-> RefreshExpiresAtOf(data, t)]

\* the CachedToken refreshToken(refreshToken) stores for response i
refreshTokenCache(data, i, t, refreshToken) ==
    [cached |-> TRUE,
     token |-> AccessTokenOf(data, i),
     expiresAt |-> ExpiresAtOf(data, t),
     refreshToken |-> IF data.refresh_token THEN i ELSE refreshToken,
     refreshExpiresAt |-> RefreshExpiresAtOf(data, t)]

\* the Error acquireToken() throws for whatever its try block threw
acquireTokenError(error) == "DSV OAuth authentication failed: " \o formatError(error)

\* expiresAt.toISOString() in the success log line throws on an invalid date
LogThrows(cachedToken) == cachedToken.expiresAt = InvalidDate

----------------------------------------------------------------------------
(* DsvAuthService, password-grant generation (src/src/services/dsv-auth.service.ts) *)

\* a validity test that looks at the token only
isTokenValidPw_AnyToken(token, expiresAt, t) == token # Undefined

isTokenValidPw(token, expiresAt, t) ==
    IF token = Undefined \/ expiresAt = Undefined
    THEN FALSE
    ELSE t < expiresAt

getAccessTokenPw(token, expiresAt, t) ==
    IF isTokenValidPw(token, expiresAt, t) THEN "cached" ELSE "password"

\* tokenExpiresAt as refreshToken() computes it: the buffer is subtracted here
expirationTimePw(data, t) ==
    LET expiresIn == IF data.expires_in # Undefined THEN data.expires_in
                     ELSE defaultExpiresInPw
    IN  t + (expiresIn - tokenBufferSecondsPw)

\* a refreshToken() that reports every failure with one message
refreshTokenErrorPw_Generic(error) == "DSV Authentication failed: Request rejected"

\* the Error refreshToken() throws for a failed exchange
refreshTokenErrorPw(error) ==
    IF error.isAxios /\ error.status = 401
    THEN "DSV Authentication failed: Invalid credentials"
    ELSE IF error.isAxios /\ error.status = 403
    THEN "DSV Authentication failed: Access forbidden"
    ELSE IF error.isAxios /\ error.status = 429
    THEN "DSV Authentication failed: Rate limit exceeded"
    ELSE "DSV Authentication failed: " \o error.message

----------------------------------------------------------------------------
(* DsvQuoteService.generateCacheKey (src/unnamed/part_002) *)

\* an optional string is <<>> (undefined) or <<s>>;  x || ''
OrEmpty(x) == IF x = <<>> THEN "" ELSE x[1]

\* Array.prototype.join
RECURSIVE Join(_, _)
Join(parts, sep) ==
    IF parts = <<>> THEN ""
    ELSE IF Len(parts) = 1 THEN parts[1]
    ELSE parts[1] \o sep \o Join(Tail(parts), sep)

\* 'mode', serviceLevel || ''  for a transport-mode block that is present
ModeParts(name, block) ==
    IF block # <<>> THEN <<name, OrEmpty(block[1].serviceLevel)>> ELSE <<>>

generateCacheKey(request) ==
    LET keyParts ==
          <<request.from.country,
            request.from.city,
            OrEmpty(request.from.zipCode),
            request.to.country,
            request.to.city,
            OrEmpty(request.to.zipCode),
            ToString(request.totalWeight),
            ToString(request.packages),
            request.cargoType>>
          \o ModeParts("air", request.air)
          \o ModeParts("sea", request.sea)
          \o ModeParts("road", request.road)
          \o ModeParts("rail", request.rail)
    IN  Join(keyParts, "|")

\* the key fields of a DsvQuoteRequest; packages is packages.length
QuoteRequest(fromCity, fromZip, toCity, toZip, weight, packages, cargoType, air, road) ==
    [from |-> [country |-> "ZA", city |-> fromCity, zipCode |-> fromZip],
     to |-> [country |-> "ZA", city |-> toCity, zipCode |-> toZip],
     totalWeight |-> weight, packages |-> packages, cargoType |-> cargoType,
     air |-> air, sea |-> <<>>, road |-> road, rail |-> <<>>]

Block(level) == <<[serviceLevel |-> level]>>

\* the requests the calculator sends in the runs explored
QuoteRequests ==
    {QuoteRequest("Johannesburg", <<"2000">>, city, <<>>, 2, 1, "LCL", <<>>,
                  Block(<<"Standard">>)) : city \in {"Durban", "Cape Town"}}

\* the requests on which the key function is compared
KeyRequests ==
    {QuoteRequest(fromCity, fromZip, "Durban", toZip, weight, packages, cargoType, air, road) :
        fromCity \in {"A", "A|B"}, fromZip \in {<<>>, <<"C">>, <<"B|C">>},
        toZip \in {<<>>, <<"4001">>}, weight \in {1, 11}, packages \in {1, 11},
        cargoType \in {"LCL", "FCL"},
        air \in {<<>>, Block(<<>>), Block(<<"Express">>)},
        road \in {<<>>, Block(<<"Express">>)}}

----------------------------------------------------------------------------
(* NodeCache as DsvQuoteService uses it: get, set with the standard TTL,
   and the periodic sweep of expired entries *)

EmptyCache == [k \in {} |-> 0]

\* const ttl = options.quoteCacheTTL || 300
stdTTL(opts) ==
    IF opts.quoteCacheTTL # Undefined THEN opts.quoteCacheTTL ELSE defaultQuoteCacheTTL

\* a cache whose entries never die
Expired_Never(entry, t) == FALSE

\* _check: an entry is dead once its expiry time lies before now
Expired(entry, t) == entry.t # 0 /\ entry.t < t

cacheHas(cache, key, t) == key \in DOMAIN cache /\ ~Expired(cache[key], t)

\* get() deletes the entry it finds expired
cacheAfterGet(cache, key, t) ==
    IF key \in DOMAIN cache /\ Expired(cache[key], t)
    THEN [k \in DOMAIN cache \ {key} |-> cache[k]]
    ELSE cache

\* a set() that stores nothing
cacheSet_Nothing(cache, key, value, ttl, t) == cache

cacheSet(cache, key, value, ttl, t) ==
    [k \in DOMAIN cache \cup {key} |->
        IF k = key THEN [t |-> IF ttl = 0 THEN 0 ELSE t + ttl, v |-> value] ELSE cache[k]]

cacheSweep(cache, t) ==
    [k \in {d \in DOMAIN cache : ~Expired(cache[d], t)} |-> cache[k]]

----------------------------------------------------------------------------
(* Callers and the requests they send *)

NoRequest ==
    [endpoint |-> "none", caller |-> 0, op |-> "none", grant |-> "none",
     bearer |-> Undefined, hasBearer |-> FALSE, subscriptionKey |-> "none"]

\* a caller that runs nothing
Idle ==
    [op |-> "none", pc |-> "idle",
     request |-> NoRequest,     \* the request awaited
     req |-> 0,                 \* ... and its number
     tokenRequests |-> 0,       \* requests this operation has sent to the token endpoint
     apiRequests |-> 0,         \* ... and to the booking or quote endpoint
     refreshToken |-> Undefined,\* the argument of refreshToken(refreshToken)
     token |-> Undefined,       \* the string getAccessToken() returned
     hasToken |-> FALSE,        \* getAccessToken() has returned
     fromCache |-> FALSE,       \* ... and it returned the cached token
     stale |-> FALSE,           \* getAccessToken() found a cached token past expiry - buffer
     key |-> "",                \* getQuote: the cache key of the request
     cacheHit |-> FALSE,        \* getQuote: the response came from the quote cache
     expired |-> FALSE,         \* getQuote: the cache held an expired entry for the key
     result |-> Undefined,      \* the id of the response returned, the price calculated
     thrown |-> FALSE,          \* the operation threw
     message |-> ""]            \* ... an Error with this message

\* a request to the token endpoint
TokenRequest(p, op, grant) ==
    [endpoint |-> "token", caller |-> p, op |-> op, grant |-> grant,
     bearer |-> Undefined, hasBearer |-> FALSE,
     subscriptionKey |-> IF grant = "password" THEN "none" ELSE "auth.accessTokenKey"]

\* a request to the booking or quote endpoint with its two headers
ApiRequest(p, op, endpoint, token, subscriptionKey) ==
    [endpoint |-> endpoint, caller |-> p, op |-> op, grant |-> "none",
     bearer |-> token, hasBearer |-> TRUE,
     subscriptionKey |-> subscriptionKey]

Endpoints == {"token", "booking", "quote"}
Operations == {"getAccessToken", "createFulfillment", "getQuote", "apiGetQuote",
               "apiSubmitBooking", "calculate"}

NothingSent == [e \in Endpoints, o \in Operations |-> 0]

RECURSIVE SumOver(_, _)
SumOver(f, S) ==
    IF S = {} THEN 0
    ELSE LET x == CHOOSE y \in S : TRUE IN f[x] + SumOver(f, S \ {x})

\* requests sent so far: all of them, and those to one endpoint
NumSent(s) == SumOver(s, Endpoints \X Operations)
SentTo(s, endpoint) == SumOver(s, {endpoint} \X Operations)

NoTokenResponse ==
    [index |-> 0, at |-> 0, data |-> NoData, grant |-> "none", refreshToken |-> Undefined]

TokenResponse(i, t, data, grant, refreshToken) ==
    [index |-> i, at |-> t, data |-> data, grant |-> grant, refreshToken |-> refreshToken]

Finished(c, result) == [c EXCEPT !.pc = "done", !.result = result, !.request = NoRequest]
Thrown(c, message) ==
    [c EXCEPT !.pc = "done", !.thrown = TRUE, !.message = message, !.request = NoRequest]

----------------------------------------------------------------------------
(* What the caller of getAccessToken() does next.  Each operator gives the
   caller's next record and the request, if any, that it sends. *)

SubstringOfUndefined == "Cannot read properties of undefined (reading 'substring')"

\* a createBooking that answers without asking the booking endpoint
createBookingSend_Skip(p, c, token) == [call |-> Finished(c, 1), send |-> <<>>]

\* DsvBookingService.createBooking after `await getAccessToken()`
createBookingSend(p, c, token) ==
    IF options.debugMode /\ token = Undefined
    THEN [call |-> Thrown(c, "DSV Booking API failed: "
                               \o formatError(PlainError(SubstringOfUndefined))),
          send |-> <<>>]
    ELSE [call |-> [c EXCEPT !.pc = "awaitBooking"],
          send |-> <<ApiRequest(p, c.op, "booking", token, "subscriptionKeys.booking")>>]

\* DsvQuoteService.getQuote after `await getAccessToken()`
getQuoteSend(p, c, token) ==
    IF options.debugMode /\ token = Undefined
    THEN [call |-> Thrown(c, "DSV Quote API failed: "
                               \o formatError(PlainError(SubstringOfUndefined))),
          send |-> <<>>]
    ELSE [call |-> [c EXCEPT !.pc = "awaitQuote"],
          send |-> <<ApiRequest(p, c.op, "quote", token, "subscriptionKeys.quote")>>]

\* an interceptor that sends the request without the Authorization header
interceptorSend_NoBearer(p, c, token) ==
    [call |-> [c EXCEPT !.pc = "awaitApi"],
     send |-> <<[ApiRequest(p, c.op, IF c.op = "apiGetQuote" THEN "quote" ELSE "booking",
                            Undefined, "subscriptionKey") EXCEPT !.hasBearer = FALSE]>>]

\* DsvApiService: the request interceptor sets the headers and the request goes out
interceptorSend(p, c, token) ==
    [call |-> [c EXCEPT !.pc = "awaitApi"],
     send |-> <<ApiRequest(p, c.op, IF c.op = "apiGetQuote" THEN "quote" ELSE "booking",
                           token, "subscriptionKey")>>]

\* DsvApiService.normalizeError for an error that is no axios error
normalizeError(error, defaultMessage) ==
    IF error.isAxios /\ error.status # Undefined
    THEN "DSV API Error: HTTP " \o ToString(error.status)
    ELSE defaultMessage \o ": " \o error.message

DefaultMessage(op) ==
    IF op = "apiGetQuote" THEN "Failed to get shipping quote" ELSE "Failed to submit booking"

\* getAccessToken() returned token
AfterToken(p, c, token, cached) ==
    LET c1 == [c EXCEPT !.token = token, !.hasToken = TRUE, !.fromCache = cached]
    IN  CASE c.op = "getAccessToken" -> [call |-> Finished(c1, token), send |-> <<>>]
          [] c.op = "createFulfillment" -> createBookingSend(p, c1, token)
          [] c.op = "getQuote" -> getQuoteSend(p, c1, token)
          [] OTHER -> interceptorSend(p, c1, token)

\* a caller that lets the error of getAccessToken() pass as it is
AfterTokenError_Unwrapped(p, c, message) == [call |-> Thrown(c, message), send |-> <<>>]

\* getAccessToken() threw an Error with this message
AfterTokenError(p, c, message) ==
    [call |->
        CASE c.op = "getAccessToken" -> Thrown(c, message)
          [] c.op = "createFulfillment" ->
                Thrown(c, "DSV Booking API failed: " \o formatError(PlainError(message)))
          [] c.op = "getQuote" ->
                Thrown(c, "DSV Quote API failed: " \o formatError(PlainError(message)))
          [] OTHER -> Thrown(c, normalizeError(PlainError(message), DefaultMessage(c.op))),
     send |-> <<>>]

\* a token is cached and the time t is at or after its expiry minus the buffer
\* (the password-grant service stores the expiry with the buffer subtracted)
CachedTokenStale(t) ==
    IF grantKind = "client_credentials"
    THEN /\ accessToken.cached
         /\ accessToken.expiresAt # InvalidDate
         /\ t >= accessToken.expiresAt - tokenBufferSeconds
    ELSE /\ accessTokenPw # Undefined
         /\ tokenExpiresAt # Undefined
         /\ t >= tokenExpiresAt

\* getAccessToken() of the generation deployed, up to its first await
EnterGetAccessToken(p, c0) ==
    LET c == [c0 EXCEPT !.stale = CachedTokenStale(now)] IN
    IF grantKind = "client_credentials"
    THEN LET todo == getAccessToken(accessToken, now)
         IN  IF todo = "cached"
             THEN AfterToken(p, c, accessToken.token, TRUE)
             ELSE IF todo = "refresh_token"
             THEN [call |-> [c EXCEPT !.pc = "awaitRefresh",
                                      !.refreshToken = accessToken.refreshToken],
                   send |-> <<TokenRequest(p, c.op, "refresh_token")>>]
             ELSE [call |-> [c EXCEPT !.pc = "awaitAcquire"],
                   send |-> <<TokenRequest(p, c.op, "client_credentials")>>]
    ELSE LET todo == getAccessTokenPw(accessTokenPw, tokenExpiresAt, now)
         IN  IF todo = "cached"
             THEN AfterToken(p, c, accessTokenPw, TRUE)
             ELSE [call |-> [c EXCEPT !.pc = "awaitPassword"],
                   send |-> <<TokenRequest(p, c.op, "password")>>]

\* the step taken: the caller's next record, and the request it sends counted
Step(p, r) ==
    IF r.send = <<>>
    THEN /\ calls' = [calls EXCEPT ![p] = r.call]
         /\ UNCHANGED sent
    ELSE LET request == r.send[1] IN
         /\ NumSent(sent) < MaxRequests
         /\ calls' = [calls EXCEPT ![p] =
               [r.call EXCEPT !.request = request,
                              !.req = NumSent(sent) + 1,
                              !.tokenRequests = @ + (IF request.endpoint = "token" THEN 1 ELSE 0),
                              !.apiRequests = @ + (IF request.endpoint = "token" THEN 0 ELSE 1)]]
         /\ sent' = [sent EXCEPT ![request.endpoint, request.op] = @ + 1]

Start(op) == [Idle EXCEPT !.op = op]

----------------------------------------------------------------------------
(* The static rate calculator (src/src/calculators/dsv-rate.calculator.ts) *)

\* an order line: quantity and the variant's customFields.weight, in tenths
\* of a kilogram (Undefined when the custom field is missing)
Line(quantity, weight) == [quantity |-> quantity, weight |-> weight]

Orders == {<<Line(1, Undefined)>>, <<Line(2, 5), Line(1, 12)>>}
CalculatorArgs == {[basePrice |-> 15000, pricePerKg |-> 500, taxRate |-> 15]}

\* customFields?.weight || 1, in tenths of a kilogram
variantWeight(line) == IF line.weight # Undefined THEN line.weight ELSE 10

RECURSIVE totalWeight(_)
totalWeight(lines) ==
    IF lines = <<>> THEN 0
    ELSE Head(lines).quantity * variantWeight(Head(lines)) + totalWeight(Tail(lines))

\* Math.ceil(totalWeight * pricePerKg), the weight being given in tenths
weightPrice(lines, args) == -((-(totalWeight(lines) * args.pricePerKg)) \div 10)

\* a calculator that books while it calculates
calculateSend_Booking(p, c) ==
    <<ApiRequest(p, c.op, "booking", Undefined, "subscriptionKeys.booking")>>

\* the requests calculate() sends: none
calculateSend(p, c) == <<>>

calculate(p, c, order, args) ==
    [call |-> Finished(c, args.basePrice + weightPrice(order, args)),
     send |-> calculateSend(p, c)]

----------------------------------------------------------------------------
(* Actions *)

NoProbe == [a |-> <<>>, b |-> <<>>, keyA |-> "", keyB |-> "", computed |-> FALSE]

Init ==
    /\ now = StartTime
    /\ grantKind \in {"client_credentials", "password"}
    /\ options \in Options
    \* the password-grant generation reads neither option outside its log lines
    /\ grantKind = "password" => options = [debugMode |-> FALSE, quoteCacheTTL |-> Undefined]
    /\ accessToken = NoCachedToken
    /\ accessTokenPw = Undefined
    /\ tokenExpiresAt = Undefined
    /\ calls = [p \in Callers |-> Idle]
    /\ sent = NothingSent
    /\ lastTokenResponse = NoTokenResponse
    /\ quoteCache = EmptyCache
    /\ probe = NoProbe

\* a direct call of DsvAuthService.getAccessToken()
GetAccessToken(p) ==
    /\ calls[p].pc = "idle"
    /\ Step(p, EnterGetAccessToken(p, Start("getAccessToken")))
    /\ UNCHANGED <<now, config, auth, quoteCache, probe>>

\* acquireToken(): the answer to the client_credentials request arrives
AcquireTokenResponse(p) ==
    LET c == calls[p] IN
    /\ c.pc = "awaitAcquire"
    /\ \/ \E data \in ResponsesTo("client_credentials") :
            LET cache == acquireTokenCache(data, c.req, now)
            IN  /\ accessToken' = cache
                /\ lastTokenResponse' =
                     TokenResponse(c.req, now, data, "client_credentials", Undefined)
                /\ IF LogThrows(cache)
                   THEN Step(p, AfterTokenError(p, c,
                            acquireTokenError(PlainError("Invalid time value"))))
                   ELSE Step(p, AfterToken(p, c, cache.token, FALSE))
       \/ \E status \in FailStatuses :
            /\ UNCHANGED <<accessToken, lastTokenResponse>>
            /\ Step(p, AfterTokenError(p, c, acquireTokenError(AxiosError(status))))
    /\ UNCHANGED <<now, config, accessTokenPw, tokenExpiresAt, quoteCache, probe>>

\* a getAccessToken() that lets the error of refreshToken() escape
FallBackToAcquire_Rethrow(p, c) == AfterTokenError(p, c, "Token refresh failed")

\* acquireToken() as getAccessToken() calls it after a failed refresh
FallBackToAcquire(p, c) ==
    [call |-> [c EXCEPT !.pc = "awaitAcquire"],
     send |-> <<TokenRequest(p, c.op, "client_credentials")>>]

\* refreshToken(refreshToken): the answer to the refresh_token request arrives
RefreshTokenResponse(p) ==
    LET c == calls[p] IN
    /\ c.pc = "awaitRefresh"
    /\ \/ \E data \in ResponsesTo("refresh_token") :
            LET cache == refreshTokenCache(data, c.req, now, c.refreshToken)
            IN  /\ accessToken' = cache
                /\ lastTokenResponse' =
                     TokenResponse(c.req, now, data, "refresh_token", c.refreshToken)
                /\ IF LogThrows(cache)
                   THEN Step(p, FallBackToAcquire(p, c))
                   ELSE Step(p, AfterToken(p, c, cache.token, FALSE))
       \/ \E status \in FailStatuses :
            /\ UNCHANGED <<accessToken, lastTokenResponse>>
            /\ Step(p, FallBackToAcquire(p, c))
    /\ UNCHANGED <<now, config, accessTokenPw, tokenExpiresAt, quoteCache, probe>>

\* refreshToken() of the password-grant service: the answer arrives
PasswordTokenResponse(p) ==
    LET c == calls[p] IN
    /\ c.pc = "awaitPassword"
    /\ \/ \E data \in ResponsesTo("password") :
            IF ~data.access_token
                THEN /\ UNCHANGED <<accessTokenPw, tokenExpiresAt, lastTokenResponse>>
                     /\ Step(p, AfterTokenError(p, c, refreshTokenErrorPw(
                            PlainError("Invalid token response: missing access_token"))))
                ELSE /\ accessTokenPw' = AccessTokenOf(data, c.req)
                     /\ tokenExpiresAt' = expirationTimePw(data, now)
                     /\ lastTokenResponse' =
                          TokenResponse(c.req, now, data, "password", Undefined)
                     /\ Step(p, AfterToken(p, c, AccessTokenOf(data, c.req), FALSE))
       \/ \E status \in FailStatuses :
            /\ UNCHANGED <<accessTokenPw, tokenExpiresAt, lastTokenResponse>>
            /\ Step(p, AfterTokenError(p, c, refreshTokenErrorPw(AxiosError(status))))
    /\ UNCHANGED <<now, config, accessToken, quoteCache, probe>>

\* dsvFulfillmentHandler.createFulfillment: the warehouse and the lines are
\* loaded from the host, then DsvBookingService.createBooking runs
CreateFulfillment(p) ==
    /\ calls[p].pc = "idle"
    /\ grantKind = "client_credentials"
    /\ \E hostOk \in BOOLEAN :
          IF hostOk
          THEN Step(p, EnterGetAccessToken(p, Start("createFulfillment")))
          ELSE Step(p, [call |-> Thrown(Start("createFulfillment"), "host error"),
                        send |-> <<>>])
    /\ UNCHANGED <<now, config, auth, quoteCache, probe>>

\* createBooking: the answer of the booking endpoint arrives
BookingResponse(p) ==
    LET c == calls[p] IN
    /\ c.pc = "awaitBooking"
    /\ \/ Step(p, [call |-> Finished(c, c.req), send |-> <<>>])
       \/ \E status \in FailStatuses :
            Step(p, [call |-> Thrown(c, "DSV Booking API failed: "
                                          \o formatError(AxiosError(status))),
                     send |-> <<>>])
    /\ UNCHANGED <<now, config, auth, quoteCache, probe>>

\* a getQuote that joins the request another caller has in flight for the key
getQuote_SingleFlight(p, request) ==
    LET key == generateCacheKey(request)
        c == [Start("getQuote") EXCEPT !.key = key]
        flying == {q \in Callers : calls[q].pc = "awaitQuote" /\ calls[q].key = key}
    IN  /\ calls[p].pc = "idle"
        /\ grantKind = "client_credentials"
        /\ UNCHANGED quoteCache
        /\ IF flying # {}
           THEN Step(p, [call |-> Finished(c, calls[CHOOSE q \in flying : TRUE].req),
                         send |-> <<>>])
           ELSE Step(p, EnterGetAccessToken(p, c))

\* DsvQuoteService.getQuote(request), up to its first await
getQuote(p, request) ==
    LET key == generateCacheKey(request)
        c == [Start("getQuote") EXCEPT
                 !.key = key,
                 !.expired = key \in DOMAIN quoteCache /\ Expired(quoteCache[key], now)]
    IN  /\ calls[p].pc = "idle"
        /\ grantKind = "client_credentials"
        /\ IF cacheHas(quoteCache, key, now)
           THEN /\ Step(p, [call |-> Finished([c EXCEPT !.cacheHit = TRUE],
                                              quoteCache[key].v.response.quoteRequestId),
                            send |-> <<>>])
                /\ UNCHANGED quoteCache
           ELSE /\ Step(p, EnterGetAccessToken(p, c))
                /\ quoteCache' = cacheAfterGet(quoteCache, key, now)

\* a caller of the host application calls getQuote(request)
GetQuote(p, request) ==
    /\ getQuote(p, request)
    /\ UNCHANGED <<now, config, auth, probe>>

LengthOfUndefined == "Cannot read properties of undefined (reading 'length')"

\* a catch block that remembers the failure under the key
getQuoteCatch_Remember(cache, key) ==
    cacheSet(cache, key, [quoteId |-> Undefined,
                          response |-> [quoteRequestId |-> Undefined, options |-> FALSE],
                          cachedAt |-> 0], 0, 0)

\* the cache after getQuote's catch block: the block logs and throws
getQuoteCatch(cache, key) == cache

\* getQuote: the answer of the quote endpoint arrives
QuoteResponse(p) ==
    LET c == calls[p] IN
    /\ c.pc = "awaitQuote"
    /\ \/ \E hasOptions \in BOOLEAN :
            LET response == [quoteRequestId |-> c.req, options |-> hasOptions]
            IN  IF hasOptions
                THEN /\ quoteCache' = cacheSet(quoteCache, c.key,
                            [quoteId |-> response.quoteRequestId, response |-> response,
                             cachedAt |-> now], stdTTL(options), now)
                     /\ Step(p, [call |-> Finished(c, response.quoteRequestId),
                                 send |-> <<>>])
                ELSE /\ quoteCache' = getQuoteCatch(quoteCache, c.key)
                     /\ Step(p, [call |-> Thrown(c, "DSV Quote API failed: "
                                     \o formatError(PlainError(LengthOfUndefined))),
                                 send |-> <<>>])
       \/ \E status \in FailStatuses :
            /\ quoteCache' = getQuoteCatch(quoteCache, c.key)
            /\ Step(p, [call |-> Thrown(c, "DSV Quote API failed: "
                                          \o formatError(AxiosError(status))),
                        send |-> <<>>])
    /\ UNCHANGED <<now, config, auth, probe>>

\* NodeCache's timer deletes the expired entries
CheckData ==
    /\ \E k \in DOMAIN quoteCache : Expired(quoteCache[k], now)
    /\ quoteCache' = cacheSweep(quoteCache, now)
    /\ UNCHANGED <<now, config, auth, calls, sent, probe>>

\* DsvApiService.getQuote / submitBooking: the request interceptor runs
ApiCall(p, op) ==
    /\ calls[p].pc = "idle"
    /\ grantKind = "password"
    /\ Step(p, EnterGetAccessToken(p, Start(op)))
    /\ UNCHANGED <<now, config, auth, quoteCache, probe>>

\* a clearToken() that clears nothing
clearToken_Keep == UNCHANGED <<accessTokenPw, tokenExpiresAt>>

\* DsvAuthService.clearToken() of the password-grant generation
clearToken == accessTokenPw' = Undefined /\ tokenExpiresAt' = Undefined

\* DsvApiService: the answer arrives and the response interceptor runs
ApiResponse(p) ==
    LET c == calls[p] IN
    /\ c.pc = "awaitApi"
    /\ \/ /\ Step(p, [call |-> Finished(c, c.req), send |-> <<>>])
          /\ UNCHANGED <<accessTokenPw, tokenExpiresAt>>
       \/ \E status \in FailStatuses :
            /\ IF status = 401
               THEN clearToken
               ELSE UNCHANGED <<accessTokenPw, tokenExpiresAt>>
            /\ Step(p, [call |-> Thrown(c, normalizeError(AxiosError(status),
                                                          DefaultMessage(c.op))),
                        send |-> <<>>])
    /\ UNCHANGED <<now, config, accessToken, lastTokenResponse, quoteCache, probe>>

\* dsvRateCalculator.calculate(ctx, order, args): it has no await
Calculate(p, order, args) ==
    /\ calls[p].pc = "idle"
    /\ Step(p, calculate(p, Start("calculate"), order, args))
    /\ UNCHANGED <<now, config, auth, quoteCache, probe>>

\* the operation's promise settles and the caller is free for the next call
Return(p) ==
    /\ calls[p].pc = "done"
    /\ calls' = [calls EXCEPT ![p] = Idle]
    /\ UNCHANGED <<now, config, auth, sent, quoteCache, probe>>

\* time passes
Tick ==
    /\ \E d \in TimeSteps :
          /\ now + d <= MaxTime
          /\ now' = now + d
    /\ UNCHANGED <<config, auth, calls, sent, quoteCache, probe>>

NextOf(P) ==
    \/ \E p \in P : GetAccessToken(p)
    \/ \E p \in P : AcquireTokenResponse(p)
    \/ \E p \in P : RefreshTokenResponse(p)
    \/ \E p \in P : PasswordTokenResponse(p)
    \/ \E p \in P : CreateFulfillment(p)
    \/ \E p \in P : BookingResponse(p)
    \/ \E p \in P, request \in QuoteRequests : GetQuote(p, request)
    \/ \E p \in P : QuoteResponse(p)
    \/ CheckData
    \/ \E p \in P, op \in {"apiGetQuote", "apiSubmitBooking"} : ApiCall(p, op)
    \/ \E p \in P : ApiResponse(p)
    \/ \E p \in P, order \in Orders, args \in CalculatorArgs : Calculate(p, order, args)
    \/ \E p \in P : Return(p)
    \/ Tick

\* one caller: operations never overlap
Next == NextOf({1})

Spec == Init /\ [][Next]_vars

\* two callers of getAccessToken(): their calls interleave at the awaits
NextRace ==
    \/ \E p \in Callers : GetAccessToken(p)
    \/ \E p \in Callers : AcquireTokenResponse(p)
    \/ \E p \in Callers : RefreshTokenResponse(p)
    \/ \E p \in Callers : PasswordTokenResponse(p)
    \/ \E p \in Callers : Return(p)
    \/ Tick

SpecRace == Init /\ [][NextRace]_vars

----------------------------------------------------------------------------
(* The cache key function on pairs of requests *)

InitKey ==
    /\ Init
    /\ grantKind = "client_credentials"
    /\ options = [debugMode |-> FALSE, quoteCacheTTL |-> Undefined]

ChooseRequests ==
    /\ probe = NoProbe
    /\ \E a \in KeyRequests, b \in KeyRequests :
          probe' = [a |-> <<a>>, b |-> <<b>>, keyA |-> generateCacheKey(a),
                    keyB |-> generateCacheKey(b), computed |-> TRUE]
    /\ UNCHANGED <<now, config, auth, calls, sent, quoteCache>>

NextKey == ChooseRequests

SpecKey == InitKey /\ [][NextKey]_vars

----------------------------------------------------------------------------
(* Properties *)

\* the buffer of the generation deployed
Buffer == IF grantKind = "password" THEN tokenBufferSecondsPw ELSE tokenBufferSeconds

\* the token endpoint's first answer was a token with a lifetime, it is the
\* answer cached, and now lies strictly before its expiry minus the buffer
InFirstWindow ==
    LET r == lastTokenResponse IN
    /\ r.index = 1
    /\ r.data.access_token
    /\ r.data.expires_in # Undefined
    /\ now < r.at + r.data.expires_in - Buffer
    /\ grantKind = "password" => accessTokenPw # Undefined   \* no clearToken() since

\* C1: sequential use of the token cache.  When the calls do not overlap, the
\* cache was empty at the start, the exchange succeeded and every call so far
\* was made strictly before (expiry of the token obtained - buffer), exactly
\* one request has been sent to the token endpoint and every call has got the
\* token of that response.
C1_OneExchangeInWindow ==
    InFirstWindow =>
        /\ SentTo(sent, "token") = 1
        /\ calls[1].hasToken => calls[1].token = lastTokenResponse.index
        /\ (calls[1].op = "getAccessToken" /\ calls[1].pc = "done") =>
              (~calls[1].thrown /\ calls[1].result = lastTokenResponse.index)

\* a later call, made inside the window, has returned the cached token
C1_Witness ==
    /\ InFirstWindow
    /\ now > lastTokenResponse.at
    /\ calls[1].op = "getAccessToken" /\ calls[1].pc = "done"
    /\ calls[1].fromCache /\ calls[1].result = 1

\* C2, as claimed: a call that finds a cached token at or after its expiry
\* minus the buffer performs exactly one exchange with the token endpoint
\* before it returns, whatever the cache holds.
C2_ExactlyOneExchange ==
    LET c == calls[1] IN
    (c.stale /\ c.hasToken) => (~c.fromCache /\ c.tokenRequests = 1)

\* C2, amended: such a call performs one exchange before it returns, or two
\* when the refresh-capable service tried the refresh grant and refreshToken()
\* threw (then the client-credentials exchange follows); the token it returns
\* is the one of its last exchange, and that is the token cached.
C2_OneOrTwoExchanges ==
    LET c == calls[1] IN
    (c.stale /\ c.hasToken) =>
        /\ ~c.fromCache
        /\ c.tokenRequests \in {1, 2}
        /\ c.tokenRequests = 2 =>
              (grantKind = "client_credentials" /\ c.refreshToken # Undefined)
        /\ (c.op = "getAccessToken" /\ c.pc = "done") =>
              /\ lastTokenResponse.index = c.req
              /\ c.result = AccessTokenOf(lastTokenResponse.data, c.req)
              /\ c.result = (IF grantKind = "password" THEN accessTokenPw
                             ELSE accessToken.token)

\* a call that found a stale token has returned after a failed refresh and a
\* client-credentials exchange
C2_Witness ==
    LET c == calls[1] IN
    /\ c.stale /\ c.hasToken /\ c.tokenRequests = 2
    /\ c.op = "getAccessToken" /\ c.pc = "done" /\ c.result = 3

\* C3: in the refresh-capable service a failing refresh-grant request does not
\* make getAccessToken() raise: the call goes on to send a client-credentials
\* request, and when that is answered with a well-formed token response the
\* call gets the new token and the cache holds it.
C3_RefreshFailureFallsBack ==
    [][\A p \in {1} :
         LET c == calls[p]
             d == calls'[p]
         IN  /\ (c.pc = "awaitRefresh" /\ d # c /\ accessToken' = accessToken) =>
                   /\ d.pc = "awaitAcquire" /\ ~d.thrown
                   /\ d.request = TokenRequest(p, c.op, "client_credentials")
                   /\ SentTo(sent', "token") = SentTo(sent, "token") + 1
             /\ (/\ c.pc = "awaitAcquire" /\ c.refreshToken # Undefined /\ d # c
                 /\ lastTokenResponse'.index = c.req
                 /\ WellFormed(lastTokenResponse'.data)) =>
                   /\ d.hasToken /\ d.token = c.req /\ ~d.thrown
                   /\ accessToken'.cached /\ accessToken'.token = c.req
                   /\ c.op = "getAccessToken" => (d.pc = "done" /\ d.result = c.req)
      ]_vars

\* the refresh request failed, and the call returned the token of the
\* client-credentials exchange that followed
C3_Witness ==
    LET c == calls[1] IN
    /\ grantKind = "client_credentials"
    /\ c.refreshToken # Undefined /\ c.tokenRequests = 2
    /\ c.pc = "done" /\ ~c.thrown /\ c.hasToken
    /\ accessToken.token = c.token
    /\ lastTokenResponse.grant = "client_credentials"

\* the real expiry of the token cached: response time + expires_in (the
\* password-grant service takes 3600 s when the response names no lifetime)
RealExpiry ==
    LET r == lastTokenResponse IN
    r.at + (IF r.data.expires_in # Undefined THEN r.data.expires_in ELSE defaultExpiresInPw)

CacheOfLastResponse ==
    LET r == lastTokenResponse IN
    IF grantKind = "client_credentials"
    THEN /\ accessToken.cached <=> r.index # 0
         /\ accessToken.cached =>
               /\ accessToken.token = AccessTokenOf(r.data, r.index)
               /\ accessToken.expiresAt = ExpiresAtOf(r.data, r.at)
               /\ accessToken.refreshExpiresAt = RefreshExpiresAtOf(r.data, r.at)
    ELSE /\ accessTokenPw # Undefined <=> r.index # 0
         /\ accessTokenPw # Undefined =>
               /\ accessTokenPw = AccessTokenOf(r.data, r.index)
               /\ tokenExpiresAt = expirationTimePw(r.data, r.at)

\* C5, as claimed: under any interleaving of getAccessToken() calls all cached
\* fields, the refresh token included, come from one and the same successful
\* token response, the one processed last.
C5_AllFieldsOfOneResponse ==
    /\ CacheOfLastResponse
    /\ (grantKind = "client_credentials" /\ accessToken.cached) =>
          accessToken.refreshToken =
             RefreshTokenOf(lastTokenResponse.data, lastTokenResponse.index)

\* C5, amended: under any interleaving the cached access token, its expiry
\* and the refresh expiry come from the successful response processed last;
\* the refresh token is that response's, or, when a refresh-grant response
\* names none, the refresh token that was sent with that refresh request.
C5_FieldsOfLastResponse ==
    /\ CacheOfLastResponse
    /\ (grantKind = "client_credentials" /\ accessToken.cached) =>
          accessToken.refreshToken =
             (IF lastTokenResponse.data.refresh_token THEN lastTokenResponse.index
              ELSE lastTokenResponse.refreshToken)

\* two overlapping calls have each made an exchange and finished; the answer
\* to the earlier request was processed last and is the one cached
C5_Witness ==
    /\ calls[1].pc = "done" /\ calls[2].pc = "done"
    /\ calls[1].token = 1 /\ calls[2].token = 2
    /\ calls[1].tokenRequests = 1 /\ calls[2].tokenRequests = 1
    /\ lastTokenResponse.index = 1
    /\ C5_FieldsOfLastResponse

\* the subscription-key header an operation's request carries
SubscriptionKeyOf(op) ==
    CASE op = "createFulfillment" -> "subscriptionKeys.booking"
      [] op = "getQuote" -> "subscriptionKeys.quote"
      [] OTHER -> "subscriptionKey"

QuoteTTL == IF options.quoteCacheTTL # Undefined THEN options.quoteCacheTTL ELSE 300

C8_KeyDiscriminates ==
    probe.computed =>
        ((probe.a = probe.b) <=> (probe.keyA = probe.keyB))

\* an unexpired entry exists for the key
UnexpiredEntry(key) ==
    key \in DOMAIN quoteCache /\ now <= quoteCache[key].v.cachedAt + QuoteTTL

\* the step in which caller p's getQuote() settles
GetQuoteSettles(p) ==
    /\ calls'[p].op = "getQuote"
    /\ calls[p].pc # "done" /\ calls'[p].pc = "done"

\* getQuote() with an unexpired entry for the key: the cached response is
\* returned and nothing is sent
C9_HitSendsNothing(p) ==
    (calls[p].pc = "idle" /\ calls'[p].op = "getQuote" /\ UnexpiredEntry(calls'[p].key)) =>
        /\ calls'[p].cacheHit /\ calls'[p].pc = "done" /\ ~calls'[p].thrown
        /\ calls'[p].result = quoteCache[calls'[p].key].v.quoteId
        /\ calls'[p].tokenRequests = 0 /\ calls'[p].apiRequests = 0
        /\ sent' = sent /\ quoteCache' = quoteCache

\* the call returns the response of the one quote request it sent, stored
\* under its key
C9_ReturnsStoredResponse(p) ==
    LET d == calls'[p] IN
    /\ ~d.thrown /\ d.apiRequests = 1
    /\ calls[p].pc = "awaitQuote"
    /\ calls[p].request.hasBearer /\ calls[p].request.bearer = calls[p].token
    /\ d.result = calls[p].req
    /\ d.key \in DOMAIN quoteCache'
    /\ quoteCache'[d.key].v.quoteId = d.result
    /\ quoteCache'[d.key].v.cachedAt = now

\* C9, as claimed: with an unexpired entry getQuote() returns the cached
\* response and requests neither a token nor a quote; otherwise it performs
\* exactly one authenticated quote request, stores the response under the key
\* and returns it.
C9_HitOrOneQuoteRequest ==
    [][\A p \in {1} :
         /\ C9_HitSendsNothing(p)
         /\ (GetQuoteSettles(p) /\ ~calls'[p].cacheHit) => C9_ReturnsStoredResponse(p)
      ]_vars

\* C9, amended: with an unexpired entry getQuote() returns the cached response
\* and sends nothing; otherwise it asks for a token and sends at most one quote
\* request, authenticated; when that request is answered with a response that
\* has an option list it stores the response under the key and returns it; in
\* every other case it throws and stores nothing.
C9_HitOrFetchOrThrow ==
    [][\A p \in {1} :
         /\ C9_HitSendsNothing(p)
         /\ (GetQuoteSettles(p) /\ ~calls'[p].cacheHit) =>
               IF calls'[p].thrown
               THEN /\ calls'[p].apiRequests <= 1
                    /\ \A k \in DOMAIN quoteCache' :
                          k \in DOMAIN quoteCache /\ quoteCache'[k] = quoteCache[k]
               ELSE C9_ReturnsStoredResponse(p)
      ]_vars

\* a getQuote() that missed the cache has returned the response of its quote
\* request and the cache holds it
C9_Witness ==
    LET c == calls[1] IN
    /\ c.op = "getQuote" /\ c.pc = "done" /\ ~c.thrown /\ ~c.cacheHit
    /\ c.tokenRequests = 1 /\ c.apiRequests = 1
    /\ c.key \in DOMAIN quoteCache /\ quoteCache[c.key].v.quoteId = c.result

\* C10: the static rate calculator sends nothing: whatever calculate() calls
\* have run, no request to the token, booking or quote endpoint was sent by
\* calculate(); booking requests of the plugin come from createFulfillment().
C10_CalculatorSendsNothing ==
    /\ \A e \in Endpoints : sent[e, "calculate"] = 0
    /\ calls[1].op = "calculate" =>
          (calls[1].tokenRequests = 0 /\ calls[1].apiRequests = 0
             /\ calls[1].request = NoRequest)
    /\ grantKind = "client_credentials" =>
          \A op \in Operations \ {"createFulfillment"} : sent["booking", op] = 0

\* calculate() has returned a price after createFulfillment() sent a booking
C10_Witness ==
    /\ calls[1].op = "calculate" /\ calls[1].pc = "done"
    /\ calls[1].result = 15000 + 1100
    /\ sent["booking", "createFulfillment"] = 1
    /\ NumSent(sent) = 2

----------------------------------------------------------------------------
(* The errors of a rejected credential exchange, on pairs of failures *)

\* what can make the exchange fail: an HTTP status, no response at all, a
\* response without access_token, a response without expires_in
ExchangeFailures ==
    {AxiosError(status) : status \in {400, 401, 403, 404, 429, 500, 503, NetworkError}}
    \cup {PlainError("Invalid token response: missing access_token"),
          PlainError("Invalid time value")}

\* the Error the auth service of the generation deployed throws
ExchangeError(error) ==
    IF grantKind = "password" THEN refreshTokenErrorPw(error) ELSE acquireTokenError(error)

ChooseFailures ==
    /\ probe = NoProbe
    /\ \E a \in ExchangeFailures, b \in ExchangeFailures :
          probe' = [a |-> a, b |-> b, errA |-> ExchangeError(a),
                    errB |-> ExchangeError(b), computed |-> TRUE]
    /\ UNCHANGED <<now, config, auth, calls, sent, quoteCache>>

NextErr == ChooseFailures

SpecErr == Init /\ [][NextErr]_vars

\* the cause of a failure as the claim sorts it: 401, 403, 429, or any other
CauseOf(error) ==
    IF error.isAxios /\ error.status \in {401, 403, 429} THEN error.status ELSE 0

\* C11: a rejected credential exchange fails with an error that tells the
\* cause: rejections with HTTP 401, 403 and 429 give three pairwise different
\* errors, each different from the error of any other failure; the
\* password-grant service names them invalid credentials, access forbidden
\* and rate limit exceeded.
C11_ErrorTellsCause ==
    probe.computed =>
        /\ CauseOf(probe.a) # CauseOf(probe.b) => probe.errA # probe.errB
        /\ grantKind = "password" =>
              /\ CauseOf(probe.a) = 401 =>
                    probe.errA = "DSV Authentication failed: Invalid credentials"
              /\ CauseOf(probe.a) = 403 =>
                    probe.errA = "DSV Authentication failed: Access forbidden"
              /\ CauseOf(probe.a) = 429 =>
                    probe.errA = "DSV Authentication failed: Rate limit exceeded"

\* a 401 and a 500 rejection of the password grant have been told apart
C11_Witness ==
    /\ probe.computed /\ grantKind = "password"
    /\ probe.a = AxiosError(401) /\ probe.b = AxiosError(500)
    /\ probe.errA = "DSV Authentication failed: Invalid credentials"
    /\ probe.errB = "DSV Authentication failed: Request failed with status code 500"

----------------------------------------------------------------------------
(* Properties of the error paths *)

\* the prefix that names the stage
StagePrefix(op) ==
    IF op = "createFulfillment" THEN "DSV Booking API failed: " ELSE "DSV Quote API failed: "

\* what can have failed, given how far the call got: the token acquisition,
\* the debug log before the request, or the HTTP call and what follows it
CausesOf(c) ==
    IF ~c.hasToken
    THEN {PlainError(acquireTokenError(e)) :
             e \in {AxiosError(status) : status \in FailStatuses}
                   \cup {PlainError("Invalid time value")}}
    ELSE IF c.apiRequests = 0
    THEN {PlainError(SubstringOfUndefined)}
    ELSE {AxiosError(status) : status \in FailStatuses}
         \cup (IF c.op = "getQuote" THEN {PlainError(LengthOfUndefined)} ELSE {})

\* the call has entered createBooking() / getQuote() past the cache lookup
InsideService(c) ==
    /\ c.op \in {"createFulfillment", "getQuote"}
    /\ c.hasToken \/ c.tokenRequests > 0

\* C12: wrap and rethrow.  When token acquisition or the HTTP call fails
\* inside createBooking() or getQuote(), the operation returns no response:
\* it throws an error whose message is the stage prefix followed by the
\* stringified cause; an operation that did not throw returns the response of
\* its request.
C12_WrapAndRethrow ==
    LET c == calls[1] IN
    (InsideService(c) /\ c.pc = "done") =>
        IF c.thrown
        THEN /\ c.result = Undefined
             /\ c.message \in {StagePrefix(c.op) \o formatError(e) : e \in CausesOf(c)}
        ELSE /\ c.hasToken /\ c.apiRequests = 1
             /\ c.result = c.req /\ c.message = ""

\* createBooking() has thrown the wrapped error of a token request answered 401
C12_Witness ==
    LET c == calls[1] IN
    /\ c.op = "createFulfillment" /\ c.pc = "done" /\ c.thrown
    /\ c.tokenRequests = 1 /\ c.apiRequests = 0
    /\ c.message = "DSV Booking API failed: DSV OAuth authentication failed: 401"

----------------------------------------------------------------------------
(* The rate calculator of the client-credentials generation
   (src/unnamed/part_002, dsvRateCalculator): it books when the quote feature
   is off and asks for a quote when it is on. *)

ShippingAddress(countryCode, city) == [countryCode |-> countryCode, city |-> city]

\* orders: shippingAddress is <<>> (undefined) or <<address>>
RateOrders ==
    [shippingAddress : {<<>>} \cup {<<ShippingAddress(countryCode, city)>> :
                                      countryCode \in {"", "ZA"}, city \in {"", "Durban"}},
     lines : {<<>>, <<Line(2, 5)>>}]

\* totalPrice.amount of the first option of a quote response
OptionAmounts == {120}

validateOrderForQuote(order) ==
    LET address == order.shippingAddress
        errors ==
            (IF address = <<>> THEN <<"Order must have a shipping address">> ELSE <<>>)
            \o (IF order.lines = <<>>
                THEN <<"Order must have at least one line item">> ELSE <<>>)
            \o (IF address = <<>> \/ address[1].countryCode = ""
                THEN <<"Shipping address must have a country code">> ELSE <<>>)
            \o (IF address = <<>> \/ address[1].city = ""
                THEN <<"Shipping address must have a city">> ELSE <<>>)
    IN  [valid |-> errors = <<>>, errors |-> errors]

ValidationMessage(order) ==
    "Order validation failed: " \o Join(validateOrderForQuote(order).errors, ", ")

\* the quote request calculate() builds for a valid order
rateQuoteRequest(order) ==
    QuoteRequest("Johannesburg", <<"2000">>, order.shippingAddress[1].city, <<"">>,
                 totalWeight(order.lines), Len(order.lines), "LCL", <<>>,
                 Block(<<"Standard">>))

\* what calculate() hands to the host: a result, or an error thrown
RateResult(price, error, message) ==
    [settled |-> "returned", price |-> price, error |-> error, message |-> message]
RateThrown(message) ==
    [settled |-> "threw", price |-> Undefined, error |-> TRUE, message |-> message]

\* a calculation in flight or settled.  cause is the failure met, if any
RateCall(quote, order, stage, cause, outcome) ==
    [quote |-> quote, order |-> order, stage |-> stage, cause |-> cause,
     outcome |-> outcome, computed |-> TRUE]

\* a catch block that hands the error on to the host
calculateCatch_Rethrow(quote, message) == RateThrown(message)

\* the two catch blocks of calculate(): a zero price and the error in metadata
calculateCatch(quote, message) ==
    IF quote
    THEN RateResult(0, TRUE, message)
    ELSE RateResult(0, TRUE, "Booking API test failed")

\* calculate(ctx, order, args) up to its first await; quote is
\* pluginOptions.features.quote
RateCalculate(p, order, quote) ==
    /\ probe = NoProbe
    /\ calls[p].pc = "idle"
    /\ grantKind = "client_credentials"
    /\ IF ~validateOrderForQuote(order).valid
       THEN /\ probe' = RateCall(quote, order, "settled", "validation",
                  IF quote
                  THEN calculateCatch(quote, ValidationMessage(order))
                  ELSE RateResult(0, TRUE, ValidationMessage(order)))
            /\ UNCHANGED <<calls, sent, quoteCache>>
       ELSE /\ probe' = RateCall(quote, order, "service", "none", RateThrown(""))
            /\ IF quote
               THEN getQuote(p, rateQuoteRequest(order))
               ELSE /\ Step(p, EnterGetAccessToken(p, Start("createFulfillment")))
                    /\ UNCHANGED quoteCache
    /\ UNCHANGED <<now, config, auth>>

\* createBooking() or getQuote() settles and calculate() runs to its end.
\* The quote service hands the response through, so the number of its
\* options is drawn here.
RateSettle(p) ==
    LET c == calls[p] IN
    /\ probe # NoProbe
    /\ probe.stage = "service"
    /\ c.pc = "done"
    /\ calls' = [calls EXCEPT ![p] = Idle]
    /\ IF c.thrown
       THEN probe' = [probe EXCEPT !.stage = "settled",
                         !.cause = IF c.hasToken THEN "request" ELSE "token",
                         !.outcome = calculateCatch(probe.quote, c.message)]
       ELSE IF ~probe.quote
       THEN probe' = [probe EXCEPT !.stage = "settled",
                         !.outcome = RateResult(0, FALSE, "")]
       ELSE \E numOptions \in {0, 1}, amount \in OptionAmounts :
               probe' = [probe EXCEPT !.stage = "settled",
                  !.cause = IF numOptions = 0 THEN "noOptions" ELSE "none",
                  !.outcome =
                     IF numOptions = 0
                     THEN calculateCatch(probe.quote,
                              "No shipping options available for this route")
                     ELSE RateResult(amount * 100, FALSE, "")]
    /\ UNCHANGED <<now, config, auth, sent, quoteCache>>

\* the host takes the outcome
RateReturn ==
    /\ probe # NoProbe
    /\ probe.stage = "settled"
    /\ probe' = NoProbe
    /\ UNCHANGED <<now, config, auth, calls, sent, quoteCache>>

NextRate ==
    \/ \E order \in RateOrders, quote \in BOOLEAN : RateCalculate(1, order, quote)
    \/ RateSettle(1)
    \/ RateReturn
    \/ AcquireTokenResponse(1)
    \/ RefreshTokenResponse(1)
    \/ BookingResponse(1)
    \/ QuoteResponse(1)
    \/ Tick

SpecRate == InitKey /\ [][NextRate]_vars

----------------------------------------------------------------------------
(* Properties of the rate calculator of the client-credentials generation *)

RateSettled == probe # NoProbe /\ probe.stage = "settled"

\* C13: whatever fails inside calculate() - the validation of the order, the
\* token acquisition, the quote call, the booking call, an empty option
\* list - calculate() throws nothing: it returns a result with price 0 whose
\* metadata carries the error.
C13_FailureBecomesZeroPrice ==
    RateSettled =>
        /\ probe.outcome.settled = "returned"
        /\ probe.cause # "none" =>
              /\ probe.outcome.price = 0
              /\ probe.outcome.error
              /\ probe.outcome.message # ""
        /\ probe.cause = "none" => ~probe.outcome.error

\* a quote calculation whose token acquisition failed has returned price 0
C13_Witness ==
    /\ RateSettled
    /\ probe.quote
    /\ probe.cause = "token"
    /\ probe.outcome = RateResult(0, TRUE,
          "DSV Quote API failed: DSV OAuth authentication failed: 401")

----------------------------------------------------------------------------
(* The rate calculator of the password-grant generation
   (src/unnamed/part_003, dsvRateCalculator): it asks DsvApiService for a
   quote and keeps the answers in a cache of its own. *)

\* an option of a quote response
QuoteOption(serviceLevel, amount) == [serviceLevel |-> serviceLevel, amount |-> amount]

\* response.options: <<>> (undefined) or <<list>>
OptionLists ==
    {<<>>, << <<>> >>, << <<QuoteOption("Express", 200), QuoteOption("Economy", 90)>> >>}

\* the orders priced in the runs explored
ApiRateOrders ==
    {order \in RateOrders : order.lines # <<>> /\ order.shippingAddress # <<ShippingAddress("", "")>>
                               /\ order.shippingAddress # <<ShippingAddress("ZA", "")>>}

ServiceLevels == {"Standard", "Express"}

\* options.find(opt => opt.serviceLevel === preferredServiceLevel)
RECURSIVE Find(_, _)
Find(list, serviceLevel) ==
    IF list = <<>> THEN <<>>
    ELSE IF Head(list).serviceLevel = serviceLevel THEN <<Head(list)>>
    ELSE Find(Tail(list), serviceLevel)

\* options.reduce(...): the first of the cheapest options
RECURSIVE Cheapest(_, _)
Cheapest(cheapest, list) ==
    IF list = <<>> THEN cheapest
    ELSE Cheapest(IF Head(list).amount < cheapest.amount THEN Head(list) ELSE cheapest,
                  Tail(list))

\* a selection that looks at the price only
selectBestOption_Cheapest(list, preferredServiceLevel) == Cheapest(Head(list), Tail(list))

\* selectBestOption on a list that is not empty
selectBestOption(list, preferredServiceLevel) ==
    LET exactMatch == Find(list, preferredServiceLevel)
    IN  IF exactMatch # <<>> THEN exactMatch[1] ELSE Cheapest(Head(list), Tail(list))

\* buildCacheKey; the one package weighs the order's total, in tenths of a kilogram
buildCacheKey(order) ==
    "quote:Road:ZA:" \o order.shippingAddress[1].countryCode \o ":"
        \o ToString(totalWeight(order.lines))

RatePrefix == "Failed to calculate DSV shipping rate: "

\* a catch block that returns a fallback price
calculateRethrow_Fallback(message) == RateResult(0, TRUE, message)

\* the catch block of calculate()
calculateRethrow(message) == RateThrown(RatePrefix \o message)

\* calculate() from the quote response on
selectRate(response, serviceLevel) ==
    IF response.options = <<>> \/ response.options[1] = <<>>
    THEN calculateRethrow("No shipping rates available")
    ELSE RateResult(selectBestOption(response.options[1], serviceLevel).amount, FALSE, "")

ApiRateCall(order, serviceLevel, stage, cause, response, outcome) ==
    [order |-> order, serviceLevel |-> serviceLevel, stage |-> stage, cause |-> cause,
     response |-> response, outcome |-> outcome, computed |-> TRUE]

NoOptionsIn(response) == response.options = <<>> \/ response.options[1] = <<>>

InitApiRate ==
    /\ now = StartTime
    /\ grantKind = "password"
    /\ options \in Options
    /\ accessToken = NoCachedToken
    /\ accessTokenPw = Undefined
    /\ tokenExpiresAt = Undefined
    /\ calls = [p \in Callers |-> Idle]
    /\ sent = NothingSent
    /\ lastTokenResponse = NoTokenResponse
    /\ quoteCache = EmptyCache
    /\ probe = NoProbe

\* calculate(ctx, order, args) up to its await
ApiRateCalculate(p, order, serviceLevel) ==
    /\ probe = NoProbe
    /\ calls[p].pc = "idle"
    /\ IF order.shippingAddress = <<>>
       THEN /\ probe' = ApiRateCall(order, serviceLevel, "settled", "address", <<>>,
                            calculateRethrow("Shipping address is required"))
            /\ UNCHANGED <<calls, sent, quoteCache>>
       ELSE LET cacheKey == buildCacheKey(order) IN
            IF cacheHas(quoteCache, cacheKey, now)
            THEN LET quoteResponse == quoteCache[cacheKey].v IN
                 /\ probe' = ApiRateCall(order, serviceLevel, "settled",
                        IF NoOptionsIn(quoteResponse) THEN "noOptions" ELSE "none",
                        <<quoteResponse>>, selectRate(quoteResponse, serviceLevel))
                 /\ UNCHANGED <<calls, sent, quoteCache>>
            ELSE /\ probe' = ApiRateCall(order, serviceLevel, "service", "none", <<>>,
                                 RateThrown(""))
                 /\ quoteCache' = cacheAfterGet(quoteCache, cacheKey, now)
                 /\ Step(p, EnterGetAccessToken(p, Start("apiGetQuote")))
    /\ UNCHANGED <<now, config, auth>>

\* apiService.getQuote() settles and calculate() runs to its end
ApiRateSettle(p) ==
    LET c == calls[p] IN
    /\ probe # NoProbe
    /\ probe.stage = "service"
    /\ c.pc = "done"
    /\ calls' = [calls EXCEPT ![p] = Idle]
    /\ IF c.thrown
       THEN /\ probe' = [probe EXCEPT !.stage = "settled",
                            !.cause = IF c.hasToken THEN "request" ELSE "token",
                            !.outcome = calculateRethrow(c.message)]
            /\ UNCHANGED quoteCache
       ELSE \E list \in OptionLists :
               LET quoteResponse == [quoteRequestId |-> c.result, options |-> list] IN
               /\ quoteCache' = cacheSet(quoteCache, buildCacheKey(probe.order),
                                         quoteResponse, stdTTL(options), now)
               /\ probe' = [probe EXCEPT !.stage = "settled",
                     !.cause = IF NoOptionsIn(quoteResponse) THEN "noOptions" ELSE "none",
                     !.response = <<quoteResponse>>,
                     !.outcome = selectRate(quoteResponse, probe.serviceLevel)]
    /\ UNCHANGED <<now, config, auth, sent>>

NextApiRate ==
    \/ \E order \in ApiRateOrders, serviceLevel \in ServiceLevels :
          ApiRateCalculate(1, order, serviceLevel)
    \/ ApiRateSettle(1)
    \/ RateReturn
    \/ PasswordTokenResponse(1)
    \/ ApiResponse(1)
    \/ CheckData
    \/ Tick

SpecApiRate == InitApiRate /\ [][NextApiRate]_vars

----------------------------------------------------------------------------
(* Properties of the rate calculator of the password-grant generation *)

\* the messages of the errors DsvApiService.getQuote() throws
ApiQuoteErrors ==
    {normalizeError(AxiosError(status), DefaultMessage("apiGetQuote")) :
        status \in FailStatuses}
    \cup {normalizeError(PlainError(refreshTokenErrorPw(e)), DefaultMessage("apiGetQuote")) :
            e \in ExchangeFailures}

----------------------------------------------------------------------------
(* What the services write to the log.  A log line is a sequence of pieces;
   a piece shows the first `shown` characters of a text. *)

Piece(text, shown) == [text |-> text, shown |-> shown]
Whole(text) == Piece(text, Len(text))

\* text.substring(0, n)
Substring(text, n) == Piece(text, IF Len(text) < n THEN Len(text) ELSE n)

\* options.auth.clientPassword of two deployments, and two access tokens
Passwords == {"hunter2", "correct-horse"}
Tokens == {"eyJhbGciOiJSUzI1NiIsInR5cCI6IkpXVCJ9.A", "eyJhbGciOiJSUzI1NiIsInR5cCI6IkpXVCJ9.B"}
clientEmail == "shop@example.com"

\* the characters of the token the debug lines show
bearerPreview == 20
tokenPreviewPw == 10

\* DsvAuthService.acquireToken: the lines written before the request is sent;
\* the second one shows params.toString(), the body of the request
acquireTokenLog(debugMode, password) ==
    << <<Whole("Requesting token from DSV client_id="), Whole(clientEmail)>> >>
    \o (IF debugMode
        THEN << <<Whole("Request details: body: grant_type=client_credentials&client_id="),
                  Whole(clientEmail), Whole("&client_secret="), Whole(password)>> >>
        ELSE <<>>)

\* DsvBookingService.createBooking: the debug line before the request
createBookingLog(debugMode, token) ==
    IF debugMode
    THEN << <<Whole("Request details: Authorization: Bearer "),
              Substring(token, bearerPreview), Whole("...")>> >>
    ELSE <<>>

\* DsvBookingService.formatError for a failed booking request: with debugMode
\* it writes error.config.headers, the headers the request was sent with
formatErrorLog(debugMode, token) ==
    IF debugMode
    THEN << <<Whole("Full error details: requestHeaders: Authorization: Bearer "),
              Whole(token)>> >>
    ELSE <<>>

\* the password-grant service: refreshToken() and, with debugMode, the two
\* interceptors with sanitizeHeaders and sanitizeResponseData
refreshTokenLogPw(debugMode, token) ==
    << <<Whole("Client email: "), Whole(clientEmail)>> >>
    \o (IF debugMode
        THEN << <<Whole("Request: headers: Authorization: Bearer ***")>>,
                <<Whole("Response: data: access_token: "),
                  Substring(token, tokenPreviewPw), Whole("...")>> >>
        ELSE <<>>)

\* the operations of the generation deployed that write log lines
LogOperations ==
    IF grantKind = "password" THEN {"refreshTokenPw"}
    ELSE {"acquireToken", "createBooking", "formatError"}

LogOf(op, debugMode, password, token) ==
    CASE op = "acquireToken" -> acquireTokenLog(debugMode, password)
      [] op = "createBooking" -> createBookingLog(debugMode, token)
      [] op = "formatError" -> formatErrorLog(debugMode, token)
      [] OTHER -> refreshTokenLogPw(debugMode, token)

\* either generation, with debugMode off or on
InitLog == InitApiRate \/ (Init /\ grantKind = "client_credentials")

\* two runs of one operation under one configuration; they differ at most in
\* the password and in the token
ChooseRuns ==
    /\ probe = NoProbe
    /\ \E op \in LogOperations,
          pwA \in Passwords, pwB \in Passwords, tokenA \in Tokens, tokenB \in Tokens :
          probe' = [op |-> op,
                    a |-> [password |-> pwA, token |-> tokenA],
                    b |-> [password |-> pwB, token |-> tokenB],
                    logA |-> LogOf(op, options.debugMode, pwA, tokenA),
                    logB |-> LogOf(op, options.debugMode, pwB, tokenB),
                    computed |-> TRUE]
    /\ UNCHANGED <<now, config, auth, calls, sent, quoteCache>>

NextLog == ChooseRuns

SpecLog == InitLog /\ [][NextLog]_vars

----------------------------------------------------------------------------
(* Properties of the log *)

\* the line shows the whole of the secret
Shows(line, secret) ==
    \E i \in DOMAIN line : line[i].text = secret /\ line[i].shown = Len(secret)

\* C15: whatever the configuration, debugMode included, no log line of the
\* auth, booking or quote services shows the client password or a complete
\* access token.
C15_NoCredentialInLog ==
    probe.computed =>
        \A i \in DOMAIN probe.logA :
            /\ ~Shows(probe.logA[i], probe.a.password)
            /\ ~Shows(probe.logA[i], probe.a.token)

----------------------------------------------------------------------------
(* DsvShippingPlugin.init and validateOptions (src/src/index.ts).  A section
   of the options is <<>> (undefined) or <<record>>; a string that is not
   set is "", a number that is not set is <<>>. *)

Auth(clientPassword, tokenEndpoint) ==
    [clientEmail |-> "shop@example.com", clientPassword |-> clientPassword,
     accessTokenKey |-> "key", apiBaseUrl |-> "https://api.dsv.com",
     tokenEndpoint |-> tokenEndpoint]

Keys(booking, quote) == [booking |-> booking, quote |-> quote]

BookingTime(start, daysFromNow) ==
    [start |-> start, end |-> "17:00:00", daysFromNow |-> daysFromNow]

Units(temperature) ==
    [dimension |-> "CM", weight |-> "KG", volume |-> "M3", loadingSpace |-> "LM",
     temperature |-> temperature]

BookingDefaults(product, incoterms, pickupTime, units) ==
    [product |-> product, packageType |-> "CTN", stackable |-> "NO",
     incoterms |-> incoterms, pickupTime |-> pickupTime,
     deliveryTime |-> <<BookingTime("08:00:00", <<3>>)>>, units |-> units]

Features(booking, quote) == [booking |-> booking, quote |-> quote]

\* the options objects init() is called with
PluginOptions ==
    [auth : {<<>>, <<Auth("secret", "/oauth/v1/token")>>, <<Auth("", "")>>},
     subscriptionKeys : {<<>>, <<Keys("b-key", "")>>, <<Keys("", "")>>},
     apiEndpoints : {<<>>, <<Keys("/booking/v2", "")>>},
     testMdmAccount : {"", "1234567890"},
     bookingDefaults :
        {<<>>,
         <<BookingDefaults("Road", <<[code |-> "EXW", location |-> "JNB"]>>,
                           <<BookingTime("08:00:00", <<1>>)>>, <<Units("C")>>)>>,
         <<BookingDefaults("", <<>>, <<BookingTime("", <<>>)>>, <<Units("")>>)>>,
         <<BookingDefaults("Road", <<[code |-> "", location |-> "JNB"]>>, <<>>, <<>>)>>},
     features : {<<>>, <<Features(TRUE, FALSE)>>, <<Features(TRUE, TRUE)>>}]

\* errors.push(message) when the condition holds
Push(condition, message) == IF condition THEN <<message>> ELSE <<>>

TypeErrorReading(property) ==
    "Cannot read properties of undefined (reading '" \o property \o "')"

\* the outcome of a function: the value it returns or the error it throws
Returned(value) == [threw |-> FALSE, value |-> value, message |-> ""]
Threw(message) == [threw |-> TRUE, value |-> <<>>, message |-> message]

timeErrors(name, section) ==
    IF section = <<>>
    THEN <<"bookingDefaults." \o name \o " configuration is required">>
    ELSE Push(section[1].start = "",
              "bookingDefaults." \o name \o ".start is required (e.g., 08:00:00)")
         \o Push(section[1].end = "",
                 "bookingDefaults." \o name \o ".end is required (e.g., 17:00:00)")
         \o Push(section[1].daysFromNow = <<>>,
                 "bookingDefaults." \o name \o ".daysFromNow must be a number")

unitsErrors(section) ==
    IF section = <<>>
    THEN <<"bookingDefaults.units configuration is required">>
    ELSE Push(section[1].dimension = "", "bookingDefaults.units.dimension is required (CM or M)")
         \o Push(section[1].weight = "", "bookingDefaults.units.weight is required (KG)")
         \o Push(section[1].volume = "", "bookingDefaults.units.volume is required (M3)")
         \o Push(section[1].loadingSpace = "",
                 "bookingDefaults.units.loadingSpace is required (LM)")
         \o Push(section[1].temperature = "",
                 "bookingDefaults.units.temperature is required (C)")

authErrors(o) ==
    IF o.auth = <<>>
    THEN <<"auth configuration is required">>
    ELSE Push(o.auth[1].clientEmail = "", "auth.clientEmail is required")
         \o Push(o.auth[1].clientPassword = "", "auth.clientPassword is required")
         \o Push(o.auth[1].accessTokenKey = "", "auth.accessTokenKey is required")
         \o Push(o.auth[1].apiBaseUrl = "",
                 "auth.apiBaseUrl is required (e.g., https://api.dsv.com)")
         \o Push(o.auth[1].tokenEndpoint = "",
                 "auth.tokenEndpoint is required (e.g., /my-demo/oauth/v1/token)")

\* enabled is options.features.booking or .quote as the rule reads it
keyErrors(o, booking, quote) ==
    IF o.subscriptionKeys = <<>>
    THEN <<"subscriptionKeys configuration is required">>
    ELSE Push(booking /\ o.subscriptionKeys[1].booking = "",
              "subscriptionKeys.booking is required when booking feature is enabled")
         \o Push(quote /\ o.subscriptionKeys[1].quote = "",
                 "subscriptionKeys.quote is required when quote feature is enabled")

endpointErrors(o, booking, quote) ==
    IF o.apiEndpoints = <<>>
    THEN <<"apiEndpoints configuration is required">>
    ELSE Push(booking /\ o.apiEndpoints[1].booking = "",
              "apiEndpoints.booking is required when booking feature is enabled (e.g., /my-demo/booking/v2)")
         \o Push(quote /\ o.apiEndpoints[1].quote = "",
                 "apiEndpoints.quote is required when quote feature is enabled (e.g., /qs-demo/quote/v1/quotes)")

bookingDefaultsErrors(o) ==
    IF o.bookingDefaults = <<>>
    THEN <<"bookingDefaults configuration is required">>
    ELSE LET d == o.bookingDefaults[1] IN
         Push(d.product = "", "bookingDefaults.product is required (Road, Air, Sea, or Rail)")
         \o Push(d.packageType = "",
                 "bookingDefaults.packageType is required (e.g., CTN, PLT, BAG)")
         \o Push(d.stackable = "", "bookingDefaults.stackable is required (STACKABLE or NO)")
         \o Push(d.incoterms = <<>> \/ d.incoterms[1].code = "",
                 "bookingDefaults.incoterms.code is required (e.g., EXW, FOB)")
         \o Push(d.incoterms = <<>> \/ d.incoterms[1].location = "",
                 "bookingDefaults.incoterms.location is required")
         \o timeErrors("pickupTime", d.pickupTime)
         \o timeErrors("deliveryTime", d.deliveryTime)
         \o unitsErrors(d.units)

\* the rules of validateOptions in its order, read with the given settings
\* of the two features
rulesViolated(o, booking, quote) ==
    authErrors(o)
    \o keyErrors(o, booking, quote)
    \o endpointErrors(o, booking, quote)
    \o Push(o.testMdmAccount = "", "testMdmAccount is required")
    \o bookingDefaultsErrors(o)
    \o Push(o.features = <<>>, "features configuration is required")

ConfigurationError(errors) ==
    "DSV Shipping Plugin configuration errors:\n- " \o Join(errors, "\n- ")

\* validateOptions: options.features.booking is read whenever the
\* subscriptionKeys or the apiEndpoints section is there
validateOptions(o) ==
    IF o.features = <<>> /\ (o.subscriptionKeys # <<>> \/ o.apiEndpoints # <<>>)
    THEN Threw(TypeErrorReading("booking"))
    ELSE LET errors == rulesViolated(o, o.features # <<>> /\ o.features[1].booking,
                                        o.features # <<>> /\ o.features[1].quote)
         IN  IF errors # <<>> THEN Threw(ConfigurationError(errors)) ELSE Returned(<<>>)

\* DsvShippingPlugin.init: its log lines read three sections before
\* validateOptions runs; initialised lists the init functions called
pluginInit(o) ==
    IF o.auth = <<>>
    THEN [outcome |-> Threw(TypeErrorReading("apiBaseUrl")), initialised |-> {}]
    ELSE IF o.apiEndpoints = <<>>
    THEN [outcome |-> Threw(TypeErrorReading("booking")), initialised |-> {}]
    ELSE IF o.features = <<>>
    THEN [outcome |-> Threw(TypeErrorReading("quote")), initialised |-> {}]
    ELSE IF validateOptions(o).threw
    THEN [outcome |-> validateOptions(o), initialised |-> {}]
    ELSE [outcome |-> Returned(<<>>),
          initialised |-> {"initDsvCalculator", "initDsvHandler"}]

\* init(options) is called
PluginInit ==
    /\ probe = NoProbe
    /\ \E o \in PluginOptions :
          probe' = [options |-> o, init |-> pluginInit(o), computed |-> TRUE]
    /\ UNCHANGED <<now, config, auth, calls, sent, quoteCache>>

NextInit == PluginInit

SpecInit == Init /\ [][NextInit]_vars

----------------------------------------------------------------------------
(* Properties of the plugin's initialisation *)

\* the rules an options object violates; a feature of a missing features
\* section is not enabled
ViolatedRules(o) ==
    rulesViolated(o, o.features # <<>> /\ o.features[1].booking,
                     o.features # <<>> /\ o.features[1].quote)

\* C16: for every options object that violates at least one rule, a missing
\* section included, init throws the one error 'DSV Shipping Plugin
\* configuration errors' listing every violated rule, and has called neither
\* initDsvCalculator nor initDsvHandler.
C16_ValidatesBeforeInitialising ==
    probe.computed =>
        (ViolatedRules(probe.options) # <<>> =>
            /\ probe.init.outcome = Threw(ConfigurationError(ViolatedRules(probe.options)))
            /\ probe.init.initialised = {})

----------------------------------------------------------------------------
(* Properties of the fulfillment handler *)

\* createFulfillment() has settled
FulfillmentSettles(c) == c.op = "createFulfillment" /\ c.pc = "done"

\* C17 as stated: every invocation of createFulfillment() sends exactly one
\* booking request.
C17_ExactlyOneBookingRequest ==
    FulfillmentSettles(calls[1]) => calls[1].apiRequests = 1

\* C17: createFulfillment() sends at most one booking request.  When it
\* returns, it has sent exactly one, to the booking endpoint, and the tracking
\* code is the bookingId of the answer to it.  When the host's lookups, the
\* token acquisition or the booking call fail, it throws the error it caught
\* and returns nothing.
C17_BookingBehindFulfillment ==
    LET c == calls[1] IN
    /\ c.op = "createFulfillment" =>
          /\ c.apiRequests <= 1
          /\ c.pc = "awaitBooking" => c.request.endpoint = "booking"
    /\ FulfillmentSettles(c) =>
          IF c.thrown
          THEN /\ c.result = Undefined
               /\ c.message \in {"host error"}
                     \cup {StagePrefix(c.op) \o formatError(e) : e \in CausesOf(c)}
          ELSE /\ c.apiRequests = 1
               /\ c.hasToken
               /\ c.result = c.req
               /\ c.message = ""

\* a fulfillment returned after a token exchange and one booking request
C17_Witness ==
    LET c == calls[1] IN
    /\ FulfillmentSettles(c)
    /\ ~c.thrown
    /\ c.tokenRequests = 1
    /\ c.apiRequests = 1
    /\ c.result = 2

----------------------------------------------------------------------------
(* Packages: calculatePackages (src/unnamed/part_004) builds the packages of
   a quote request, convertToBookingPackages (src/src/utils/booking-converter.ts)
   those of a booking request.  A custom field is <<>> (not set) or <<n>>:
   kilograms and centimetres. *)

defaultWeight == 1
defaultLength == 30
defaultWidth == 20
defaultHeight == 10
bookingDefaultHeight == 20

CustomFields(weight, shippingWeight, length, packageLength, width, packageWidth, height, packageHeight) ==
    [weight |-> weight, shippingWeight |-> shippingWeight,
     length |-> length, packageLength |-> packageLength,
     width |-> width, packageWidth |-> packageWidth,
     height |-> height, packageHeight |-> packageHeight]

NoCustomFields == CustomFields(<<>>, <<>>, <<>>, <<>>, <<>>, <<>>, <<>>, <<>>)

OrderLine(sku, quantity, customFields) ==
    [sku |-> sku, quantity |-> quantity, customFields |-> customFields]

\* x || d  for a number: 0 counts as not set
OrDefault(x, d) == IF x # <<>> /\ x[1] # 0 THEN x[1] ELSE d

\* a || b || d
OrElse(a, b, d) == OrDefault(a, OrDefault(b, d))

\* determinePackageType; the weight bound 0.5 is read on whole kilograms
determinePackageType(weight, length, width, height) ==
    IF 2 * weight < 1 /\ length < 35 /\ width < 25 /\ height < 2 THEN "PKG"
    ELSE IF length > 100 /\ width < 15 /\ height < 15 THEN "RLL"
    ELSE IF weight > 500 \/ length > 120 \/ width > 100 \/ height > 100 THEN "PLT"
    ELSE IF weight > 100 THEN "CRT"
    ELSE "CTN"

\* itemGroups: the lines grouped by sku in the order of their first line,
\* each group keeping its first line and the sum of the quantities
RECURSIVE AddToGroups(_, _)
AddToGroups(groups, line) ==
    IF groups = <<>> THEN <<[line |-> line, quantity |-> line.quantity]>>
    ELSE IF Head(groups).line.sku = line.sku
    THEN <<[Head(groups) EXCEPT !.quantity = @ + line.quantity]>> \o Tail(groups)
    ELSE <<Head(groups)>> \o AddToGroups(Tail(groups), line)

RECURSIVE itemGroups(_, _)
itemGroups(groups, lines) ==
    IF lines = <<>> THEN groups
    ELSE itemGroups(AddToGroups(groups, Head(lines)), Tail(lines))

\* a package typed by the weight of one item
quotePackage_UnitWeight(group) ==
    LET fields == group.line.customFields
        itemWeight == OrDefault(fields.weight, defaultWeight) * group.quantity
        length == OrDefault(fields.length, defaultLength)
        width == OrDefault(fields.width, defaultWidth)
        height == OrDefault(fields.height, defaultHeight)
    IN  [sku |-> group.line.sku,
         packageType |-> determinePackageType(OrDefault(fields.weight, defaultWeight),
                                              length, width, height),
         quantity |-> group.quantity, totalWeight |-> itemWeight,
         length |-> length, width |-> width, height |-> height]

\* the package calculatePackages builds for a group
quotePackage(group) ==
    LET fields == group.line.customFields
        itemWeight == OrDefault(fields.weight, defaultWeight) * group.quantity
        length == OrDefault(fields.length, defaultLength)
        width == OrDefault(fields.width, defaultWidth)
        height == OrDefault(fields.height, defaultHeight)
    IN  [sku |-> group.line.sku,
         packageType |-> determinePackageType(itemWeight, length, width, height),
         quantity |-> group.quantity, totalWeight |-> itemWeight,
         length |-> length, width |-> width, height |-> height]

\* calculatePackages(order).packages for an order with lines
calculatePackages(lines) ==
    LET groups == itemGroups(<<>>, lines)
    IN  [i \in DOMAIN groups |-> quotePackage(groups[i])]

\* the package convertToBookingPackages builds for a line; the volume in cm3
bookingPackage(line) ==
    LET fields == line.customFields
        weight == OrElse(fields.weight, fields.shippingWeight, defaultWeight)
        length == OrElse(fields.length, fields.packageLength, defaultLength)
        width == OrElse(fields.width, fields.packageWidth, defaultWidth)
        height == OrElse(fields.height, fields.packageHeight, bookingDefaultHeight)
    IN  [sku |-> line.sku, quantity |-> line.quantity,
         totalWeight |-> weight * line.quantity, netWeight |-> weight * line.quantity,
         length |-> length, width |-> width, height |-> height,
         totalVolume |-> length * width * height * line.quantity]

convertToBookingPackages(lines) == [i \in DOMAIN lines |-> bookingPackage(lines[i])]

\* the lines packed in the runs explored
PackedLines ==
    {OrderLine("A", quantity,
               CustomFields(weight, shippingWeight, length, <<>>, width, <<>>,
                            height, packageHeight)) :
        quantity \in {1, 3}, weight \in {<<>>, <<5>>}, shippingWeight \in {<<>>, <<7>>},
        length \in {<<>>, <<40>>}, width \in {<<>>, <<25>>},
        height \in {<<>>, <<15>>}, packageHeight \in {<<>>, <<12>>}}

\* orders of one line, of the same line twice, and of two variants
PackedOrders ==
    {<<line>> : line \in PackedLines}
    \cup {<<line, line>> : line \in PackedLines}
    \cup {<<line, OrderLine("B", 2, NoCustomFields)>> : line \in PackedLines}

\* both package lists are built for an order
BuildPackages ==
    /\ probe = NoProbe
    /\ \E lines \in PackedOrders :
          probe' = [lines |-> lines, quote |-> calculatePackages(lines),
                    booking |-> convertToBookingPackages(lines), computed |-> TRUE]
    /\ UNCHANGED <<now, config, auth, calls, sent, quoteCache>>

NextPackages == BuildPackages

SpecPackages == Init /\ [][NextPackages]_vars

----------------------------------------------------------------------------
(* Properties of the packages *)

\* the line's variant has neither the custom field nor its second name
Lacks(line, field, other) ==
    line.customFields[field] = <<>> /\ line.customFields[other] = <<>>

\* the quote package of the line's variant
QuotePackageOf(line) ==
    LET i == CHOOSE j \in DOMAIN probe.quote : probe.quote[j].sku = line.sku
    IN  probe.quote[i]

\* C18: for every line whose variant lacks the weight or a dimension custom
\* field, the quote package and the booking package built for it use 1 kg
\* per item and 30 x 20 x 10 cm for what is missing.
C18_DefaultsForMissingFields ==
    probe.computed =>
        \A i \in DOMAIN probe.lines :
            LET line == probe.lines[i]
                q == QuotePackageOf(line)
                b == probe.booking[i]
            IN  /\ Lacks(line, "weight", "shippingWeight") =>
                      /\ q.totalWeight = defaultWeight * q.quantity
                      /\ b.totalWeight = defaultWeight * line.quantity
                /\ Lacks(line, "length", "packageLength") =>
                      q.length = defaultLength /\ b.length = defaultLength
                /\ Lacks(line, "width", "packageWidth") =>
                      q.width = defaultWidth /\ b.width = defaultWidth
                /\ Lacks(line, "height", "packageHeight") =>
                      q.height = defaultHeight /\ b.height = defaultHeight

----------------------------------------------------------------------------
(* dsvEligibilityChecker.check (src/src/calculators/dsv-eligibility.checker.ts).
   order.lines is <<>> (undefined) or <<list>>; a line carries its quantity
   and its variant's customFields.weight, <<>> (not set) or <<n>>. *)

WeighedLine(quantity, weight) == [quantity |-> quantity, weight |-> weight]

WeighedLines ==
    {WeighedLine(quantity, weight) :
        quantity \in {1, 2}, weight \in {<<>>, <<0>>, <<5>>, <<-5>>}}

EligibilityOrders ==
    [shippingAddress : {<<>>} \cup {<<ShippingAddress(countryCode, city)>> :
                                      countryCode \in {"", "ZA"}, city \in {"", "Durban"}},
     lines : {<<>>, << <<>> >>}
             \cup {<< <<line>> >> : line \in WeighedLines}
             \cup {<< <<line, other>> >> : line \in WeighedLines, other \in WeighedLines}]

\* order.lines.reduce((sum, line) => sum + line.quantity * (weight || 1), 0)
RECURSIVE checkedWeight(_)
checkedWeight(lines) ==
    IF lines = <<>> THEN 0
    ELSE Head(lines).quantity * OrDefault(Head(lines).weight, defaultWeight)
         + checkedWeight(Tail(lines))

\* a checker that looks at the address only
check_AddressOnly(order) == Returned(order.shippingAddress # <<>>)

\* check(ctx, order)
check(order) ==
    IF order.shippingAddress = <<>> THEN Returned(FALSE)
    ELSE IF order.shippingAddress[1].countryCode = "" THEN Returned(FALSE)
    ELSE IF order.shippingAddress[1].city = "" THEN Returned(FALSE)
    ELSE IF order.lines = <<>> \/ order.lines[1] = <<>> THEN Returned(FALSE)
    ELSE IF checkedWeight(order.lines[1]) <= 0 THEN Returned(FALSE)
    ELSE Returned(TRUE)

\* the host asks whether an order is eligible
Check ==
    /\ probe = NoProbe
    /\ \E order \in EligibilityOrders :
          probe' = [order |-> order, result |-> check(order), computed |-> TRUE]
    /\ UNCHANGED <<now, config, auth, calls, sent, quoteCache>>

NextCheck == Check

SpecCheck == Init /\ [][NextCheck]_vars

----------------------------------------------------------------------------
(* Properties of the eligibility checker *)

\* sum over the lines of quantity x variant weight, the weight being 1 when
\* the variant has none
RECURSIVE TotalWeightOf(_)
TotalWeightOf(lines) ==
    IF lines = <<>> THEN 0
    ELSE Head(lines).quantity
            * (IF Head(lines).weight = <<>> THEN 1 ELSE Head(lines).weight[1])
         + TotalWeightOf(Tail(lines))

\* a shipping address with country code and city, and at least one line
AddressAndLines(order) ==
    /\ order.shippingAddress # <<>>
    /\ order.shippingAddress[1].countryCode # ""
    /\ order.shippingAddress[1].city # ""
    /\ order.lines # <<>>
    /\ order.lines[1] # <<>>

Eligible(order) == AddressAndLines(order) /\ TotalWeightOf(order.lines[1]) > 0

RECURSIVE TotalWeightOrDefault(_)
TotalWeightOrDefault(lines) ==
    IF lines = <<>> THEN 0
    ELSE Head(lines).quantity
            * (IF Head(lines).weight = <<>> \/ Head(lines).weight[1] = 0
               THEN 1 ELSE Head(lines).weight[1])
         + TotalWeightOrDefault(Tail(lines))

----------------------------------------------------------------------------
(* convertVendureContact (src/src/utils/booking-converter.ts).  customer,
   order, order.customer and order.shippingAddress are <<>> (undefined or
   null) or <<record>>; a string field that is not set is "". *)

Customer(firstName, lastName, emailAddress, phoneNumber) ==
    [firstName |-> firstName, lastName |-> lastName, emailAddress |-> emailAddress,
     phoneNumber |-> phoneNumber]

ContactAddress(fullName, company, phoneNumber) ==
    [fullName |-> fullName, company |-> company, phoneNumber |-> phoneNumber]

Contact(name, email, telephone) == [name |-> name, email |-> email, telephone |-> telephone]

fallbackName == "Customer"
fallbackEmail == "noreply@example.com"
fallbackTelephone == "+27000000000"

\* a || b  for strings
Or(a, b) == IF a # "" THEN a ELSE b

\* `${firstName} ${lastName}`.trim() for names that are blank or have no
\* blanks at their ends
Blank(x) == x \in {"", " "}
TrimmedName(firstName, lastName) ==
    IF Blank(firstName) /\ Blank(lastName) THEN ""
    ELSE IF Blank(lastName) THEN firstName
    ELSE IF Blank(firstName) THEN lastName
    ELSE firstName \o " " \o lastName

\* the contact built from a customer object
contactOf(cust) ==
    LET firstName == Or(cust.firstName, fallbackName)
        lastName == Or(cust.lastName, "")
    IN  Contact(Or(TrimmedName(firstName, lastName), fallbackName),
                Or(cust.emailAddress, fallbackEmail),
                Or(cust.phoneNumber, fallbackTelephone))

\* a converter that never looks at order.customer
convertVendureContact_CustomerOnly(customer, order) ==
    IF customer # <<>> THEN Returned(contactOf(customer[1]))
    ELSE Returned(Contact(fallbackName, fallbackEmail, fallbackTelephone))

convertVendureContact(customer, order) ==
    LET orderCustomer == IF order = <<>> THEN <<>> ELSE order[1].customer
        shippingAddress == IF order = <<>> THEN <<>> ELSE order[1].shippingAddress
    IN  IF customer = <<>> /\ orderCustomer = <<>>
        THEN IF shippingAddress # <<>>
             THEN LET addr == shippingAddress[1] IN
                  Returned(Contact(Or(addr.fullName, Or(addr.company, fallbackName)),
                                   fallbackEmail,
                                   Or(addr.phoneNumber, fallbackTelephone)))
             ELSE Returned(Contact(fallbackName, fallbackEmail, fallbackTelephone))
        ELSE LET cust == IF customer # <<>> THEN customer[1] ELSE orderCustomer[1]
             IN  Returned(contactOf(cust))

\* the customers, order customers and shipping addresses converted
Customers ==
    {<<>>} \cup {<<Customer(firstName, lastName, emailAddress, phoneNumber)>> :
                   firstName \in {"", "Ann", " "}, lastName \in {"", "Lee"},
                   emailAddress \in {"", "ann@example.org"}, phoneNumber \in {"", "+27110000001"}}

OrderCustomers ==
    {<<>>, <<Customer("Bob", "Ray", "bob@example.org", "+27110000002")>>,
     <<Customer("", "", "", "")>>}

ContactAddresses ==
    {<<>>} \cup {<<ContactAddress(fullName, company, phoneNumber)>> :
                   fullName \in {"", "Cy Dee"}, company \in {"", "Acme"},
                   phoneNumber \in {"", "+27820000003"}}

ContactOrders ==
    {<<>>} \cup {<<[customer |-> customer, shippingAddress |-> address]>> :
                   customer \in OrderCustomers, address \in ContactAddresses}

ConvertContact ==
    /\ probe = NoProbe
    /\ \E customer \in Customers, order \in ContactOrders :
          probe' = [customer |-> customer, order |-> order,
                    result |-> convertVendureContact(customer, order), computed |-> TRUE]
    /\ UNCHANGED <<now, config, auth, calls, sent, quoteCache>>

NextContact == ConvertContact

SpecContact == Init /\ [][NextContact]_vars

----------------------------------------------------------------------------
(* Properties of the contact conversion *)

\* the first string of the sequence that is not empty
RECURSIVE FirstSet(_)
FirstSet(values) ==
    IF values = <<>> THEN ""
    ELSE IF Head(values) # "" THEN Head(values) ELSE FirstSet(Tail(values))

\* the fields the sources offer
FieldsOf(source, fields) ==
    IF source = <<>> THEN <<>> ELSE [i \in DOMAIN fields |-> source[1][fields[i]]]

\* the name a customer object offers: none when it has neither name
NameOf(source) ==
    IF source = <<>> THEN <<>>
    ELSE IF TrimmedName(source[1].firstName, source[1].lastName) = "" THEN <<"">>
    ELSE <<TrimmedName(Or(source[1].firstName, fallbackName), source[1].lastName)>>

OrderCustomerOf(order) == IF order = <<>> THEN <<>> ELSE order[1].customer
ShippingAddressOf(order) == IF order = <<>> THEN <<>> ELSE order[1].shippingAddress

NonEmptyContact(result) ==
    /\ ~result.threw
    /\ result.value.name # ""
    /\ result.value.email # ""
    /\ result.value.telephone # ""

\* C20 as stated: convertVendureContact never throws, returns non-empty
\* name, email and telephone, and resolves each of them from the explicit
\* customer, then order.customer, then the shipping address (fullName, else
\* company; phoneNumber), then the fixed constants.
C20_FallbackChain ==
    probe.computed =>
        LET customer == probe.customer
            orderCustomer == OrderCustomerOf(probe.order)
            address == ShippingAddressOf(probe.order)
        IN  /\ NonEmptyContact(probe.result)
            /\ probe.result.value.name =
                  FirstSet(NameOf(customer) \o NameOf(orderCustomer)
                           \o FieldsOf(address, <<"fullName", "company">>)
                           \o <<fallbackName>>)
            /\ probe.result.value.email =
                  FirstSet(FieldsOf(customer, <<"emailAddress">>)
                           \o FieldsOf(orderCustomer, <<"emailAddress">>)
                           \o <<fallbackEmail>>)
            /\ probe.result.value.telephone =
                  FirstSet(FieldsOf(customer, <<"phoneNumber">>)
                           \o FieldsOf(orderCustomer, <<"phoneNumber">>)
                           \o FieldsOf(address, <<"phoneNumber">>)
                           \o <<fallbackTelephone>>)

\* the one source the contact is taken from
ContactSource(customer, order) ==
    IF customer # <<>> THEN "customer"
    ELSE IF OrderCustomerOf(order) # <<>> THEN "order.customer"
    ELSE IF ShippingAddressOf(order) # <<>> THEN "shippingAddress"
    ELSE "constants"

\* C20: convertVendureContact never throws and returns non-empty name,
\* email and telephone.  It takes the contact from one source: the explicit
\* customer if there is one, else order.customer, else the shipping address
\* (fullName, else company; phoneNumber), else the fixed constants; whatever
\* the chosen source lacks comes from the fixed constants, not from a later
\* source.
C20_OneSourceThenConstants ==
    probe.computed =>
        LET source == ContactSource(probe.customer, probe.order)
            contact == probe.result.value
            cust == IF source = "customer" THEN probe.customer[1]
                    ELSE OrderCustomerOf(probe.order)[1]
            address == ShippingAddressOf(probe.order)
        IN  /\ NonEmptyContact(probe.result)
            /\ source \in {"customer", "order.customer"} =>
                  /\ contact.name =
                        FirstSet(<<TrimmedName(FirstSet(<<cust.firstName, fallbackName>>),
                                               cust.lastName),
                                   fallbackName>>)
                  /\ contact.email = FirstSet(<<cust.emailAddress, fallbackEmail>>)
                  /\ contact.telephone = FirstSet(<<cust.phoneNumber, fallbackTelephone>>)
            /\ source = "shippingAddress" =>
                  /\ contact.name = FirstSet(FieldsOf(address, <<"fullName", "company">>)
                                             \o <<fallbackName>>)
                  /\ contact.email = fallbackEmail
                  /\ contact.telephone = FirstSet(<<address[1].phoneNumber, fallbackTelephone>>)
            /\ source = "constants" =>
                  contact = Contact(fallbackName, fallbackEmail, fallbackTelephone)

\* a customer without a telephone number and an address with one: the
\* telephone is the constant
C20_Witness ==
    /\ probe.computed
    /\ probe.customer = <<Customer("Ann", "Lee", "ann@example.org", "")>>
    /\ probe.order # <<>>
    /\ ShippingAddressOf(probe.order) = <<ContactAddress("Cy Dee", "Acme", "+27820000003")>>
    /\ probe.result = Returned(Contact("Ann Lee", "ann@example.org", fallbackTelephone))

----------------------------------------------------------------------------
(* selectBestOption (src/unnamed/part_003) on option lists of its own *)

MaxOptions == 3

OptionLevels == {"Standard", "Express", "Economy"}

OptionPrices == {90, 120, 200}

SelectableOptions ==
    {QuoteOption(serviceLevel, amount) : serviceLevel \in OptionLevels, amount \in OptionPrices}

\* the option lists that are not empty
SelectableLists ==
    UNION {[1..n -> SelectableOptions] : n \in 1..MaxOptions}

\* the calculator selects from the options of a quote response
SelectOption ==
    /\ probe = NoProbe
    /\ \E list \in SelectableLists, preferred \in OptionLevels :
          probe' = [list |-> list, preferred |-> preferred,
                    selected |-> selectBestOption(list, preferred), computed |-> TRUE]
    /\ UNCHANGED <<now, config, auth, calls, sent, quoteCache>>

NextSelect == SelectOption

SpecSelect == Init /\ [][NextSelect]_vars

----------------------------------------------------------------------------
(* Properties of the service level selection *)

\* the positions of the options of the preferred level
Preferred(list, preferred) == {i \in 1..Len(list) : list[i].serviceLevel = preferred}

\* the positions of the options no other option is cheaper than
Minimal(list) == {i \in 1..Len(list) : \A j \in 1..Len(list) : list[i].amount <= list[j].amount}

First(positions) == CHOOSE i \in positions : \A j \in positions : i <= j

\* C21: for every option list that is not empty, selectBestOption returns the
\* first option of the preferred service level if there is one, and otherwise
\* the first of the options whose amount is minimal over the list.
C21_PreferredElseCheapest ==
    probe.computed =>
        probe.selected =
            IF Preferred(probe.list, probe.preferred) # {}
            THEN probe.list[First(Preferred(probe.list, probe.preferred))]
            ELSE probe.list[First(Minimal(probe.list))]

\* no option of the preferred level, two cheapest options: the first of them
\* is selected, and it is not the first of the list
C21_Witness ==
    /\ probe.computed
    /\ Preferred(probe.list, probe.preferred) = {}
    /\ Minimal(probe.list) = {2, 3}
    /\ probe.list[2] # probe.list[3]
    /\ probe.selected = probe.list[2]

----------------------------------------------------------------------------
(* determinePackageType and calculatePackages (src/unnamed/part_004) around
   the thresholds of the package types *)

\* weights, lengths, widths and heights on both sides of every threshold
TypeWeights == {0, 1, 100, 101, 500, 501}
TypeLengths == {34, 35, 100, 101, 120, 121}
TypeWidths == {14, 15, 24, 25, 100, 101}
TypeHeights == {1, 2, 14, 15, 100, 101}

\* lines of light and heavy, short and long, flat and high variants
TypedLines ==
    {OrderLine(sku, quantity, CustomFields(weight, <<>>, length, <<>>, width, <<>>, height, <<>>)) :
        sku \in {"A"}, quantity \in {1, 2},
        weight \in {<<>>, <<0>>, <<60>>, <<300>>}, length \in {<<>>, <<110>>, <<130>>},
        width \in {<<>>, <<10>>}, height \in {<<>>, <<1>>, <<12>>}}

\* orders of one line, and of a line followed by a line of the same or of
\* another variant
TypedOrders ==
    {<<line>> : line \in TypedLines}
    \cup {<<line, OrderLine(sku, quantity, line.customFields)>> :
            line \in TypedLines, sku \in {"A", "B"}, quantity \in {1, 2}}

\* the type of one package is determined
DetermineType ==
    /\ probe = NoProbe
    /\ \E weight \in TypeWeights, length \in TypeLengths, width \in TypeWidths,
          height \in TypeHeights :
          probe' = [weight |-> weight, length |-> length, width |-> width, height |-> height,
                    packageType |-> determinePackageType(weight, length, width, height),
                    lines |-> <<>>, quote |-> <<>>, computed |-> TRUE]
    /\ UNCHANGED <<now, config, auth, calls, sent, quoteCache>>

\* the packages of a quote request are built for an order
TypePackages ==
    /\ probe = NoProbe
    /\ \E lines \in TypedOrders :
          probe' = [weight |-> 0, length |-> 0, width |-> 0, height |-> 0, packageType |-> "",
                    lines |-> lines, quote |-> calculatePackages(lines), computed |-> TRUE]
    /\ UNCHANGED <<now, config, auth, calls, sent, quoteCache>>

NextTypes == DetermineType \/ TypePackages

SpecTypes == Init /\ [][NextTypes]_vars

----------------------------------------------------------------------------
(* Properties of the package types *)

\* the decision table, the rows in their order of priority; weights are whole
\* kilograms, so that below 0.5 is read as below 1/2
IsPKG(weight, length, width, height) ==
    2 * weight < 1 /\ length < 35 /\ width < 25 /\ height < 2

IsRLL(weight, length, width, height) == length > 100 /\ width < 15 /\ height < 15

IsPLT(weight, length, width, height) ==
    weight > 500 \/ length > 120 \/ width > 100 \/ height > 100

IsCRT(weight, length, width, height) == weight > 100

TableRows == <<"PKG", "RLL", "PLT", "CRT", "CTN">>

RowHolds(row, weight, length, width, height) ==
    CASE row = 1 -> IsPKG(weight, length, width, height)
      [] row = 2 -> IsRLL(weight, length, width, height)
      [] row = 3 -> IsPLT(weight, length, width, height)
      [] row = 4 -> IsCRT(weight, length, width, height)
      [] row = 5 -> TRUE

\* the type of the first row that holds
TableType(weight, length, width, height) ==
    TableRows[CHOOSE row \in 1..5 :
                /\ RowHolds(row, weight, length, width, height)
                /\ \A earlier \in 1..(row - 1) : ~RowHolds(earlier, weight, length, width, height)]

\* the summed quantity of the lines of a variant
RECURSIVE SummedQuantity(_, _)
SummedQuantity(lines, sku) ==
    IF lines = <<>> THEN 0
    ELSE (IF Head(lines).sku = sku THEN Head(lines).quantity ELSE 0)
         + SummedQuantity(Tail(lines), sku)

\* the first line of a variant
FirstLineOf(lines, sku) ==
    lines[CHOOSE i \in DOMAIN lines :
            lines[i].sku = sku /\ \A j \in 1..(i - 1) : lines[j].sku # sku]

\* the type the table gives the group of a variant by its total weight
GroupType(lines, sku) ==
    LET fields == FirstLineOf(lines, sku).customFields
    IN  TableType(OrDefault(fields.weight, defaultWeight) * SummedQuantity(lines, sku),
                  OrDefault(fields.length, defaultLength),
                  OrDefault(fields.width, defaultWidth),
                  OrDefault(fields.height, defaultHeight))

\* C22: the package type is the first row that holds of the table PKG (weight
\* < 0.5, length < 35, width < 25, height < 2), RLL (length > 100, width < 15,
\* height < 15), PLT (weight > 500 or length > 120 or width > 100 or height >
\* 100), CRT (weight > 100), CTN; calculatePackages applies the table to the
\* total weight of a group, unit weight x summed quantity.
C22_DecisionTable ==
    probe.computed =>
        /\ probe.lines = <<>> =>
              probe.packageType
                  = TableType(probe.weight, probe.length, probe.width, probe.height)
        /\ \A i \in DOMAIN probe.quote :
              /\ probe.quote[i].packageType = GroupType(probe.lines, probe.quote[i].sku)
              /\ probe.quote[i].quantity = SummedQuantity(probe.lines, probe.quote[i].sku)

\* two lines of a variant of 60 kg make one crate of 120 kg, where one item
\* alone is a carton
C22_Witness ==
    /\ probe.computed
    /\ Len(probe.lines) = 2
    /\ Len(probe.quote) = 1
    /\ probe.lines[1].customFields.weight = <<60>>
    /\ probe.quote[1].totalWeight = 120
    /\ probe.quote[1].packageType = "CRT"
    /\ TableType(60, probe.quote[1].length, probe.quote[1].width, probe.quote[1].height) = "CTN"

----------------------------------------------------------------------------
(* The result of the static rate calculator
   (src/src/calculators/dsv-rate.calculator.ts, calculate): weights in tenths
   of a kilogram, prices in cents, the tax rate in percent *)

defaultTaxRate == 15

\* args.taxRate || 15
taxRateOf(args) == IF args.taxRate # 0 THEN args.taxRate ELSE defaultTaxRate

\* the ShippingCalculationResult calculate() returns
ShippingCalculationResult(lines, args) ==
    [price |-> args.basePrice + weightPrice(lines, args),
     priceIncludesTax |-> FALSE,
     taxRate |-> taxRateOf(args)]

PricedLines == {Line(quantity, weight) : quantity \in {1, 2}, weight \in {Undefined, 5, 12}}

\* orders without lines, of one line and of two lines
PricedOrders ==
    {<<>>} \cup {<<line>> : line \in PricedLines}
           \cup {<<line, other>> : line \in PricedLines, other \in PricedLines}

ConfiguredArgs == [basePrice : {0, 15000}, pricePerKg : {0, 33, 500}, taxRate : {0, 15, 20}]

\* the host asks the calculator for the price of an order
CalculateStatic ==
    /\ probe = NoProbe
    /\ \E lines \in PricedOrders, args \in ConfiguredArgs :
          probe' = [lines |-> lines, args |-> args,
                    result |-> ShippingCalculationResult(lines, args), computed |-> TRUE]
    /\ UNCHANGED <<now, config, auth, calls, sent, quoteCache>>

NextStatic == CalculateStatic

SpecStatic == Init /\ [][NextStatic]_vars

----------------------------------------------------------------------------
(* Properties of the static rate calculator's result *)

\* sum over the lines of quantity x variant weight, in tenths of a kilogram,
\* the weight being 1 kg when it is absent or 0
RECURSIVE WeightInTenths(_)
WeightInTenths(lines) ==
    IF lines = <<>> THEN 0
    ELSE Head(lines).quantity
            * (IF Head(lines).weight = 0 THEN 10 ELSE Head(lines).weight)
         + WeightInTenths(Tail(lines))

\* the least whole number of cents that is not below tenths x rate / 10
CeilOfTenths(tenths, rate) ==
    CHOOSE cents \in 0..(tenths * rate) :
        /\ 10 * cents >= tenths * rate
        /\ 10 * (cents - 1) < tenths * rate

\* C23 as stated: calculate() returns price = basePrice + ceil(totalWeight x
\* pricePerKg), the total weight being the sum of quantity x variant weight
\* (1 when absent or 0), priceIncludesTax = false, and the configured
\* args.taxRate as taxRate, whatever its value, 0 included.
C23_StaticPriceFormula ==
    probe.computed =>
        probe.result =
            [price |-> probe.args.basePrice
                          + CeilOfTenths(WeightInTenths(probe.lines), probe.args.pricePerKg),
             priceIncludesTax |-> FALSE,
             taxRate |-> probe.args.taxRate]

----------------------------------------------------------------------------
(* Two callers of DsvQuoteService.getQuote (src/unnamed/part_002): their
   calls interleave at the awaits on the token and on the quote endpoint *)

\* both callers ask for the same quote
RaceRequests == {request \in QuoteRequests : request.to.city = "Durban"}

NextQuoteRace ==
    \/ \E p \in Callers, request \in RaceRequests : GetQuote(p, request)
    \/ \E p \in Callers : AcquireTokenResponse(p)
    \/ \E p \in Callers : RefreshTokenResponse(p)
    \/ \E p \in Callers : QuoteResponse(p)
    \/ \E p \in Callers : Return(p)
    \/ Tick

SpecQuoteRace == InitKey /\ [][NextQuoteRace]_vars

----------------------------------------------------------------------------
(* Properties of overlapping quote lookups *)

\* caller p runs getQuote and found no entry for its key
Missed(p) == calls[p].op = "getQuote" /\ ~calls[p].cacheHit

\* caller p's getQuote has returned the response of a request
Answered(p) == Missed(p) /\ calls[p].pc = "done" /\ ~calls[p].thrown

\* every call that found no entry and has returned sent one request to the
\* quote endpoint and returned the response to that request
OwnRequestOwnResponse ==
    \A p \in Callers :
        Answered(p) => calls[p].apiRequests = 1 /\ calls[p].result = calls[p].req

\* two calls with the same key that both found no entry are answered by two
\* requests
TwoRequests ==
    \A p \in Callers, q \in Callers :
        (p # q /\ Answered(p) /\ Answered(q) /\ calls[p].key = calls[q].key)
            => /\ calls[p].result # calls[q].result
               /\ SentTo(sent, "quote") >= 2

\* the call that returns a response has stored it under its key, whatever
\* was stored there, and has left the other entries alone
StoresOwnResponse ==
    \A p \in Callers :
        (calls[p].pc = "awaitQuote" /\ calls'[p].pc = "done" /\ ~calls'[p].thrown)
            => LET key == calls[p].key IN
               /\ key \in DOMAIN quoteCache'
               /\ quoteCache'[key].v.quoteId = calls'[p].result
               /\ quoteCache'[key].v.response.quoteRequestId = calls'[p].result
               /\ quoteCache'[key].v.response.options
               /\ quoteCache'[key].v.cachedAt = now
               /\ DOMAIN quoteCache' = DOMAIN quoteCache \cup {key}
               /\ \A k \in DOMAIN quoteCache \ {key} : quoteCache'[k] = quoteCache[k]

\* C24: two overlapping getQuote() calls with the same key that both find no
\* cached entry each send a request of their own and each return the
\* response to it; the cache then holds one complete entry for the key, that
\* of the response stored last.
C24_NoSingleFlight ==
    /\ [](OwnRequestOwnResponse /\ TwoRequests)
    /\ [][StoresOwnResponse]_vars

\* both calls have returned, the second request was answered first: the
\* cache holds the response to the first request
C24_Witness ==
    /\ Answered(1) /\ Answered(2)
    /\ calls[1].key = calls[2].key
    /\ calls[1].result = 2 /\ calls[2].result = 3
    /\ quoteCache[calls[1].key].v.quoteId = 2

----------------------------------------------------------------------------
(* Properties of a failed exchange *)

\* the fields of the token cache of both generations
TokenCache == <<accessToken, accessTokenPw, tokenExpiresAt>>

\* caller p's request to the token endpoint is settled in this step and the
\* exchange fails: acquireToken() or the password-grant refreshToken() throws,
\* or the refresh grant fails and getAccessToken() falls back to acquireToken()
ExchangeFails(p) ==
    /\ calls[p].pc \in {"awaitAcquire", "awaitRefresh", "awaitPassword"}
    /\ ~calls'[p].hasToken
    /\ \/ calls'[p].pc = "done" /\ calls'[p].thrown
       \/ calls[p].pc = "awaitRefresh" /\ calls'[p].pc = "awaitAcquire"

\* C25 as stated: when a credential exchange or a refresh-grant request
\* fails, the cached token, its expiry and the refresh-token fields are what
\* they were before the call: a failed exchange neither clears the cache nor
\* stores a partial token.
C25_FailureKeepsTokenCache ==
    [][\A p \in Callers : ExchangeFails(p) => UNCHANGED TokenCache]_vars

----------------------------------------------------------------------------
(* Properties of the refresh path of the client-credentials generation *)

\* caller p enters getAccessToken() in this step, directly or through
\* createBooking or getQuote, and finds no valid access token
EntersWithInvalidToken(p) ==
    /\ grantKind = "client_credentials"
    /\ calls[p].pc = "idle"
    /\ calls'[p].op \in {"getAccessToken", "createFulfillment", "getQuote"}
    /\ ~calls'[p].cacheHit
    /\ ~(calls'[p].pc = "done" /\ calls'[p].thrown /\ ~calls'[p].hasToken)
    /\ ~(/\ accessToken.cached
         /\ accessToken.expiresAt # InvalidDate
         /\ now < accessToken.expiresAt - tokenBufferSeconds)

\* the cache holds a refresh token and a refreshExpiresAt strictly after now
RefreshTokenUsable ==
    /\ accessToken.cached
    /\ accessToken.refreshToken # Undefined
    /\ accessToken.refreshExpiresAt # Undefined
    /\ now < accessToken.refreshExpiresAt

\* caller p sends a refresh-grant request in this step
SendsRefresh(p) ==
    /\ calls'[p].pc = "awaitRefresh"
    /\ calls'[p].request.endpoint = "token"
    /\ calls'[p].request.grant = "refresh_token"
    /\ calls'[p].tokenRequests = 1
    /\ SentTo(sent', "token") = SentTo(sent, "token") + 1

RefreshGuard ==
    \A p \in Callers : EntersWithInvalidToken(p) => (SendsRefresh(p) <=> RefreshTokenUsable)

\* no refresh is attempted while the response cached carried no refresh_expires_in
NoRefreshWithoutExpiry ==
    \A p \in Callers :
        (calls[p].pc = "idle" /\ calls'[p].pc = "awaitRefresh")
            => lastTokenResponse.data.refresh_expires_in # Undefined

\* a refresh that succeeds on a response without refresh_token keeps the
\* refresh token it was called with
KeepsRefreshToken ==
    \A p \in Callers :
        (/\ calls[p].pc = "awaitRefresh"
         /\ calls'[p].hasToken
         /\ ~lastTokenResponse'.data.refresh_token)
            => /\ accessToken'.refreshToken = accessToken.refreshToken
               /\ accessToken'.refreshToken # Undefined

\* C26: with an invalid access token, getAccessToken() sends a refresh-grant
\* request exactly when the cache holds a refresh token and a
\* refreshExpiresAt strictly after now; a response without refresh_expires_in
\* never leads to a later refresh attempt; a successful refresh whose
\* response carries no refresh_token keeps the previous refresh token.
C26_RefreshGuard ==
    [][RefreshGuard /\ NoRefreshWithoutExpiry /\ KeepsRefreshToken]_vars

\* the second request was a refresh grant answered without refresh_token: the
\* new access token is cached with the refresh token of the first response
C26_Witness ==
    /\ lastTokenResponse.index = 2
    /\ lastTokenResponse.grant = "refresh_token"
    /\ ~lastTokenResponse.data.refresh_token
    /\ calls[1].hasToken /\ calls[1].pc = "done"
    /\ accessToken.token = 2
    /\ accessToken.refreshToken = 1

----------------------------------------------------------------------------
(* Properties of the response interceptor of DsvApiService *)

TokenCachePw == <<accessTokenPw, tokenExpiresAt>>

ApiOperations == {"apiGetQuote", "apiSubmitBooking"}

\* the answer to caller p's API request arrives in this step
ApiSettles(p) == calls[p].pc = "awaitApi" /\ calls'[p].pc = "done"

\* ... and it is a response with status 401
Unauthorized(p) ==
    /\ ApiSettles(p)
    /\ calls'[p].thrown
    /\ calls'[p].message = "DSV API Error: HTTP 401"

\* a 401 clears the cached token; the request is not sent again and its error
\* reaches the caller
ClearsOn401 ==
    \A p \in Callers :
        Unauthorized(p) =>
            /\ accessTokenPw' = Undefined
            /\ tokenExpiresAt' = Undefined
            /\ sent' = sent
            /\ calls'[p].apiRequests = 1
            /\ calls'[p].request = NoRequest

\* any other answer leaves the cached token as it is
KeepsOtherwise ==
    \A p \in Callers : (ApiSettles(p) /\ ~Unauthorized(p)) => UNCHANGED TokenCachePw

\* an API request that finds the cache cleared starts with a credential
\* exchange, and goes out only with the token of that exchange
ExchangeBeforeRequest ==
    \A p \in Callers :
        /\ (/\ calls[p].pc = "idle"
            /\ calls'[p].op \in ApiOperations
            /\ accessTokenPw = Undefined)
              => /\ calls'[p].pc = "awaitPassword"
                 /\ calls'[p].request.endpoint = "token"
                 /\ calls'[p].request.grant = "password"
                 /\ calls'[p].apiRequests = 0
        /\ (/\ calls[p].op \in ApiOperations
            /\ calls[p].pc = "awaitPassword"
            /\ calls'[p].pc = "awaitApi")
              => /\ calls'[p].request.bearer = lastTokenResponse'.index
                 /\ lastTokenResponse'.index = calls[p].req
                 /\ accessTokenPw' = calls'[p].request.bearer

----------------------------------------------------------------------------
(* Quote lookups of both generations: DsvQuoteService.getQuote
   (src/unnamed/part_002) in the client-credentials generation, the rate
   calculator with its own cache (src/unnamed/part_003) in the password-grant
   generation *)

\* one caller; the actions of a generation are enabled in its deployments only
NextQuoteFail ==
    \/ \E request \in QuoteRequests : GetQuote(1, request)
    \/ AcquireTokenResponse(1)
    \/ RefreshTokenResponse(1)
    \/ QuoteResponse(1)
    \/ grantKind = "client_credentials" /\ Return(1)
    \/ \E order \in ApiRateOrders, serviceLevel \in ServiceLevels :
          grantKind = "password" /\ ApiRateCalculate(1, order, serviceLevel)
    \/ ApiRateSettle(1)
    \/ RateReturn
    \/ PasswordTokenResponse(1)
    \/ ApiResponse(1)
    \/ CheckData
    \/ Tick

SpecQuoteFail == InitLog /\ [][NextQuoteFail]_vars

----------------------------------------------------------------------------
(* Properties of failed quote requests *)

\* the entries of the cache that have not expired
LiveEntries(cache, t) == [k \in {d \in DOMAIN cache : ~Expired(cache[d], t)} |-> cache[k]]

\* caller p's getQuote() throws in this step
GetQuoteFails(p) ==
    /\ calls'[p].op = "getQuote"
    /\ calls[p].pc # "done"
    /\ calls'[p].pc = "done"
    /\ calls'[p].thrown

\* getQuote() of DsvQuoteService: the failing call stores nothing under its
\* key and leaves the live entries as they are
FailedGetQuoteStoresNothing ==
    \A p \in Callers :
        GetQuoteFails(p) =>
            /\ LiveEntries(quoteCache', now) = LiveEntries(quoteCache, now)
            /\ ~cacheHas(quoteCache', calls'[p].key, now)

\* a getQuote() that finds no live entry for its key goes to the network: it
\* sends a request in this step, and returns only what the quote endpoint
\* answered to a request of its own
MissedGetQuoteAsks ==
    \A p \in Callers :
        /\ (/\ calls[p].pc = "idle"
            /\ calls'[p].op = "getQuote"
            /\ ~cacheHas(quoteCache, calls'[p].key, now)
            /\ ~calls'[p].thrown)
              => /\ ~calls'[p].cacheHit
                 /\ calls'[p].pc \in {"awaitAcquire", "awaitRefresh", "awaitQuote"}
                 /\ NumSent(sent') = NumSent(sent) + 1
        /\ (/\ calls'[p].op = "getQuote"
            /\ calls'[p].pc = "done"
            /\ ~calls'[p].thrown
            /\ ~calls'[p].cacheHit)
              => calls'[p].apiRequests = 1

\* the calculator's call of apiService.getQuote() fails in this step
ApiQuoteFails ==
    /\ probe # NoProbe
    /\ grantKind = "password"
    /\ probe.stage = "service"
    /\ probe'.stage = "settled"
    /\ probe'.cause \in {"token", "request"}

\* calculate(): the failing call stores nothing under its key and leaves the
\* live entries as they are
FailedCalculateStoresNothing ==
    ApiQuoteFails =>
        /\ LiveEntries(quoteCache', now) = LiveEntries(quoteCache, now)
        /\ ~cacheHas(quoteCache', buildCacheKey(probe.order), now)
        /\ probe'.outcome.settled = "threw"

\* a calculate() that finds no live entry for its key asks the quote API
MissedCalculateAsks ==
    (/\ probe = NoProbe
     /\ probe' # NoProbe
     /\ grantKind = "password"
     /\ probe'.order.shippingAddress # <<>>
     /\ ~cacheHas(quoteCache, buildCacheKey(probe'.order), now))
        => /\ probe'.stage = "service"
           /\ calls'[1].pc \in {"awaitPassword", "awaitApi"}
           /\ NumSent(sent') = NumSent(sent) + 1

----------------------------------------------------------------------------
(* The quote request and the cache key of the rate calculator of the
   password-grant generation (src/unnamed/part_003), on pairs of calls.  '' and
   undefined are <<>>, a string that is set is <<s>>. *)

DeliveryAddress(countryCode, postalCode, city) ==
    [countryCode |-> countryCode, postalCode |-> postalCode, city |-> city]

\* the orders priced: their code, their address and their lines
KeyedOrders ==
    [code : {"ORD-1", "ORD-2"},
     shippingAddress : {<<DeliveryAddress(countryCode, postalCode, city)>> :
                          countryCode \in {"ZA", "NA"}, postalCode \in {"", "4001"},
                          city \in {"", "Durban"}},
     lines : {<<Line(1, Undefined)>>, <<Line(2, 5)>>}]

KeyedArgs == [serviceLevel : {"Standard", "Express"}, includeInsurance : BOOLEAN]

\* s || undefined
OrUndefined(s) == IF s = "" THEN <<>> ELSE <<s>>

\* the DsvQuoteRequest calculate() builds; the weight of its one package in
\* tenths of a kilogram
apiQuoteRequest(order, args) ==
    [transportMode |-> "Road",
     origin |-> [countryCode |-> "ZA", postalCode |-> <<"0001">>, city |-> <<"Pretoria">>],
     destination |-> [countryCode |-> order.shippingAddress[1].countryCode,
                      postalCode |-> OrUndefined(order.shippingAddress[1].postalCode),
                      city |-> OrUndefined(order.shippingAddress[1].city)],
     packages |-> <<[quantity |-> 1, packageType |-> "Box",
                     weight |-> totalWeight(order.lines)]>>,
     serviceLevel |-> args.serviceLevel,
     includeInsurance |-> args.includeInsurance,
     customerReference |-> order.code]

\* two calls of calculate() build their requests and their cache keys
BuildKeys ==
    /\ probe = NoProbe
    /\ \E a \in KeyedOrders, b \in KeyedOrders, argsA \in KeyedArgs, argsB \in KeyedArgs :
          probe' = [a |-> apiQuoteRequest(a, argsA), b |-> apiQuoteRequest(b, argsB),
                    keyA |-> buildCacheKey(a), keyB |-> buildCacheKey(b), computed |-> TRUE]
    /\ UNCHANGED <<now, config, auth, calls, sent, quoteCache>>

NextApiKey == BuildKeys

SpecApiKey == InitApiRate /\ [][NextApiKey]_vars

----------------------------------------------------------------------------
(* Properties of the calculator's cache key *)

\* the requests differ in the destination's postal code or city, in the
\* service level, in the insurance flag or in the order reference
DifferAsQuotes(a, b) ==
    \/ a.destination.postalCode # b.destination.postalCode
    \/ a.destination.city # b.destination.city
    \/ a.serviceLevel # b.serviceLevel
    \/ a.includeInsurance # b.includeInsurance
    \/ a.customerReference # b.customerReference

\* C29 as stated: two calculate() calls whose quote requests differ in the
\* destination's postal code or city, the service level, the insurance flag
\* or the order reference never share a cache entry: buildCacheKey gives
\* them different keys.
C29_DifferentRequestsDifferentKeys ==
    (probe.computed /\ DifferAsQuotes(probe.a, probe.b)) => probe.keyA # probe.keyB

====
